---------------------------- MODULE Spec2Model ----------------------------
(***************************************************************************)
(* AI-Wiki-Quiz backend: the resilient structured-extraction pipeline of   *)
(* backend/app/llm.py and the fallback of backend/app/main.py.             *)
(*                                                                         *)
(* Three state machines share this module:                                 *)
(*   SpecInvoke  - _invoke_chain_with_retries (retry with backoff)         *)
(*   SpecParse   - _safe_json_parse (JSON recovery), over character texts  *)
(*   Spec        - llm.generate_quiz followed by the endpoint's fallback   *)
(*                                                                         *)
(* Texts are sequences of one-character strings, so that substring search, *)
(* lower-casing, the regular expressions and the JSON grammar are computed *)
(* on characters as the Python code computes them.                         *)
(***************************************************************************)
EXTENDS Integers, Sequences, FiniteSets, TLC

VARIABLES
    \* ---- _invoke_chain_with_retries ----
    max_retries,   \* parameter max_retries
    attempt,       \* loop variable of "for attempt in range(max_retries)"
    last_exc,      \* last exception caught, None before the first
    chain_calls,   \* number of chain.invoke calls made so far
    slept,         \* number of time.sleep calls made so far
    delay,         \* argument of the latest time.sleep, as a fraction num/den
    ipc,           \* "invoking" | "sleeping" | "returned" | "raised"
    iout,          \* what the invoker returned or raised
    \* ---- _safe_json_parse ----
    raw,           \* the argument text
    text,          \* local variable text
    start,         \* index of the first container opener (1-based)
    pos,           \* scan position i (1-based)
    stack,         \* depth stack of open container tokens
    in_string,
    string_char,
    escape,
    end,           \* balanced end found by the scan, 0 for None
    ppc,           \* position in _safe_json_parse
    pout,          \* returned value or raised ValueError
    \* ---- generate_quiz (llm) and the endpoint's fallback (main) ----
    data,          \* the question list
    attempts,      \* supplemental rounds completed
    n_initial,     \* length of the list parsed from the initial completion
    n_merged,      \* length of the list when the completion loop ended
    pool,          \* candidate pool of the fallback in progress
    fi,            \* index i of the fallback loop
    repairs,       \* number of _repair_with_model calls
    more_calls,    \* number of supplemental requests issued
    qpc,           \* position in generate_quiz / endpoint
    qout,          \* outcome of the request
    entry,         \* what is called: "endpoint" POST /api/quizzes/generate, "direct"
                   \* llm.generate_quiz, "direct_analyze" llm.analyze_article,
                   \* "direct_related" llm.generate_related_topics
    article,       \* the article text (text / article_text)
    analysis,      \* value returned by analyze_article
    related_topics, \* value returned by generate_related_topics
    quiz_items,    \* value returned by llm.generate_quiz
    more_result,   \* completion of the supplemental request of the round in
                   \* progress (llm.py:287), until the round has dealt with it
    model_calls,   \* number of requests sent to the model so far
    repair_prompts, \* the prompt of every _repair_with_model call so far
    \* ---- concurrent requests at POST /api/quizzes/generate ----
    store,         \* the rows of table quizzes, in the order of their commit
    requests       \* the requests being served, each with its position

ivars == <<max_retries, attempt, last_exc, chain_calls, slept, delay, ipc, iout>>
pvars == <<raw, text, start, pos, stack, in_string, string_char, escape, end, ppc, pout>>
qvars == <<data, attempts, n_initial, n_merged, pool, fi, repairs, more_calls, qpc, qout,
           entry, article, analysis, related_topics, quiz_items,
           more_result, model_calls, repair_prompts>>
svars == <<store, requests>>
vars == <<ivars, pvars, qvars, svars>>

None == "None"

-----------------------------------------------------------------------------
(* Characters and strings                                                  *)

UpperCase == <<"A","B","C","D","E","F","G","H","I","J","K","L","M",
               "N","O","P","Q","R","S","T","U","V","W","X","Y","Z">>
LowerCase == <<"a","b","c","d","e","f","g","h","i","j","k","l","m",
               "n","o","p","q","r","s","t","u","v","w","x","y","z">>
Digits == <<"0","1","2","3","4","5","6","7","8","9">>

Range(s) == {s[k] : k \in DOMAIN s}

IsDigit(c) == c \in Range(Digits)
DigitVal(c) == (CHOOSE k \in DOMAIN Digits : Digits[k] = c) - 1
\* \w of Python's re on the characters used here
IsWordChar(c) == c \in Range(UpperCase) \cup Range(LowerCase) \cup Range(Digits) \cup {"_"}

\* str.lower()
LowerChar(c) ==
    IF c \in Range(UpperCase)
    THEN LowerCase[CHOOSE k \in DOMAIN UpperCase : UpperCase[k] = c]
    ELSE c
Lower(s) == [k \in DOMAIN s |-> LowerChar(s[k])]

\* s[a..b] with Python's clipping of the upper limit
Slice(s, a, b) == IF b < a THEN <<>> ELSE SubSeq(s, a, IF b > Len(s) THEN Len(s) ELSE b)

\* sub occurs in s at position p
StartsAt(s, sub, p) ==
    /\ p >= 1
    /\ p + Len(sub) - 1 <= Len(s)
    /\ \A k \in 1..Len(sub) : s[p + k - 1] = sub[k]

\* "sub in s"
Contains(s, sub) == \E p \in 1..(Len(s) + 1) : StartsAt(s, sub, p)

\* s.find(sub): the lowest position, 0 when absent (Python's -1)
Find(s, sub) ==
    IF Contains(s, sub)
    THEN CHOOSE p \in 1..(Len(s) + 1) :
            /\ StartsAt(s, sub, p)
            /\ \A q \in 1..(p - 1) : ~StartsAt(s, sub, q)
    ELSE 0

\* s.rfind(c) for a single character, 0 when absent
RFindChar(s, c) ==
    IF \E p \in DOMAIN s : s[p] = c
    THEN CHOOSE p \in DOMAIN s : s[p] = c /\ \A q \in (p + 1)..Len(s) : s[q] # c
    ELSE 0

\* length of the run of digits of s that starts at p
RECURSIVE DigitRun(_, _)
DigitRun(s, p) == IF p <= Len(s) /\ IsDigit(s[p]) THEN 1 + DigitRun(s, p + 1) ELSE 0

\* length of the run of \W characters of s that starts at p
RECURSIVE NonWordRun(_, _)
NonWordRun(s, p) == IF p <= Len(s) /\ ~IsWordChar(s[p]) THEN 1 + NonWordRun(s, p + 1) ELSE 0

\* value of a string of decimal digits
RECURSIVE DigitsValue(_)
DigitsValue(ds) ==
    IF ds = <<>> THEN 0
    ELSE 10 * DigitsValue(SubSeq(ds, 1, Len(ds) - 1)) + DigitVal(ds[Len(ds)])

RECURSIVE Pow(_, _)
Pow(b, e) == IF e = 0 THEN 1 ELSE b * Pow(b, e - 1)

-----------------------------------------------------------------------------
(* _invoke_chain_with_retries                                   llm.py:36  *)

S_RESOURCE_EXHAUSTED == <<"R","E","S","O","U","R","C","E","_","E","X","H","A","U","S","T","E","D">>
S_429 == <<"4","2","9">>
S_quota == <<"q","u","o","t","a">>
S_rate_limit == <<"r","a","t","e"," ","l","i","m","i","t">>
S_retry_in == <<"r","e","t","r","y"," ","i","n"," ">>
S_retryDelay == <<"r","e","t","r","y","D","e","l","a","y">>

\* the four markers named by the specification
Markers == {S_RESOURCE_EXHAUSTED, S_429, S_quota, S_rate_limit}

\* an error message that contains one of the four markers in any letter case
HasMarkerAnyCase(msg) == \E m \in Markers : Contains(Lower(msg), Lower(m))

\* llm.py:49, the condition that makes an error retryable
IsRateLimitedAlways(msg) == TRUE
IsRateLimited(msg) ==
    \/ Contains(msg, S_RESOURCE_EXHAUSTED)
    \/ Contains(msg, S_429)
    \/ Contains(Lower(msg), S_quota)
    \/ Contains(Lower(msg), S_rate_limit)

\* re.search(r"retry in (\d+(?:\.\d+)?)s", msg) tried at position p
RetryInAt(msg, p) ==
    LET q == p + Len(S_retry_in)
        n1 == DigitRun(msg, q)
        r == q + n1
        n2 == IF r <= Len(msg) /\ msg[r] = "." THEN DigitRun(msg, r + 1) ELSE 0
        e == IF n2 > 0 THEN r + 1 + n2 ELSE r
    IN  [ok   |-> StartsAt(msg, S_retry_in, p) /\ n1 > 0 /\ e <= Len(msg) /\ msg[e] = "s",
         int  |-> Slice(msg, q, r - 1),
         frac |-> IF n2 > 0 THEN Slice(msg, r + 1, r + n2) ELSE <<>>]

\* re.search(r"retryDelay\W*(\d+)s", msg) tried at position p
RetryDelayAt(msg, p) ==
    LET q == p + Len(S_retryDelay)
        d == q + NonWordRun(msg, q)
        n == DigitRun(msg, d)
    IN  [ok   |-> StartsAt(msg, S_retryDelay, p) /\ n > 0 /\ d + n <= Len(msg) /\ msg[d + n] = "s",
         int  |-> Slice(msg, d, d + n - 1),
         frac |-> <<>>]

\* re.search: the leftmost position at which the pattern matches, 0 for no match
SearchRetryIn(msg) ==
    IF \E p \in 1..Len(msg) : RetryInAt(msg, p).ok
    THEN CHOOSE p \in 1..Len(msg) :
            RetryInAt(msg, p).ok /\ \A q \in 1..(p - 1) : ~RetryInAt(msg, q).ok
    ELSE 0
SearchRetryDelay(msg) ==
    IF \E p \in 1..Len(msg) : RetryDelayAt(msg, p).ok
    THEN CHOOSE p \in 1..Len(msg) :
            RetryDelayAt(msg, p).ok /\ \A q \in 1..(p - 1) : ~RetryDelayAt(msg, q).ok
    ELSE 0

\* float(m.group(1)), kept exact as the fraction num/den
FloatOf(m) == [num |-> DigitsValue(m.int \o m.frac), den |-> Pow(10, Len(m.frac))]

\* llm.py:51-56, the delay before clamping
BackoffDelayWrong(msg, k) ==
    IF SearchRetryDelay(msg) # 0 THEN FloatOf(RetryDelayAt(msg, SearchRetryDelay(msg)))
    ELSE IF SearchRetryIn(msg) # 0 THEN FloatOf(RetryInAt(msg, SearchRetryIn(msg)))
    ELSE [num |-> Pow(2, k) * 5, den |-> 1]
BackoffDelay(msg, k) ==
    IF SearchRetryIn(msg) # 0 THEN FloatOf(RetryInAt(msg, SearchRetryIn(msg)))
    ELSE IF SearchRetryDelay(msg) # 0 THEN FloatOf(RetryDelayAt(msg, SearchRetryDelay(msg)))
    ELSE [num |-> Pow(2, k) * 5, den |-> 1]

MaxDelay == 120

\* llm.py:57, min(delay, 120)
ClampDelayWrong(d) == d
ClampDelay(d) == IF d.num > MaxDelay * d.den THEN [num |-> MaxDelay, den |-> 1] ELSE d

\* Error messages the model client can raise: a head (what went wrong)
\* followed by a tail (a retry hint, or none).
MsgHeads == {
    S_RESOURCE_EXHAUSTED,
    Lower(S_RESOURCE_EXHAUSTED),
    <<"H","T","T","P"," ","4","2","9">>,
    S_quota,
    <<"Q","u","o","t","a"," ","e","x","c","e","e","d","e","d">>,
    S_rate_limit,
    <<"R","a","t","e"," ","L","i","m","i","t"," ","h","i","t">>,
    <<"r","a","t","e","l","i","m","i","t">>,
    <<"t","i","m","e","o","u","t">>,
    <<>> }
MsgTails == {
    <<>>,
    <<"."," ","P","l","e","a","s","e"," ","r","e","t","r","y"," ","i","n"," ","5","6",".","7","3","s">>,
    <<" ","r","e","t","r","y"," ","i","n"," ","3","0","0","s">>,
    <<" ","r","e","t","r","y"," ","i","n"," ","0","s">>,
    <<" ","'","r","e","t","r","y","D","e","l","a","y","'",":"," ","'","7","s","'">>,
    <<" ","r","e","t","r","y","D","e","l","a","y","=","1","3","0","s">>,
    <<" ","r","e","t","r","y"," ","i","n"," ","3","s",","," ","r","e","t","r","y","D","e","l","a","y",":"," ","5","0","0","s">>,
    <<" ","r","e","t","r","y"," ","i","n"," ","5",".","s"," ","r","e","t","r","y","D","e","l","a","y"," ","8","s">>,
    <<" ","R","e","t","r","y"," ","i","n"," ","9","s">> }
Messages == {h \o t : h \in MsgHeads, t \in MsgTails}

MaxAttempts == 3

NoExc == [msg |-> <<>>, id |-> 0]

InitInvoker ==
    /\ attempt = 0
    /\ last_exc = NoExc
    /\ chain_calls = 0
    /\ slept = 0
    /\ delay = [num |-> 0, den |-> 1]
    /\ iout = [kind |-> "none"]

\* llm.py:44, chain.invoke(inputs) returns
InvokeReturns ==
    /\ ipc = "invoking"
    /\ chain_calls' = chain_calls + 1
    /\ ipc' = "returned"
    /\ iout' = [kind |-> "value", call |-> chain_calls + 1]
    /\ UNCHANGED <<max_retries, attempt, last_exc, slept, delay>>

\* llm.py:45-60, chain.invoke(inputs) raises e with str(e) = msg
InvokeRaises(msg) ==
    LET e == [msg |-> msg, id |-> chain_calls + 1] IN
    /\ ipc = "invoking"
    /\ chain_calls' = chain_calls + 1
    /\ last_exc' = e
    /\ IF IsRateLimited(msg)
       THEN /\ delay' = ClampDelay(BackoffDelay(msg, attempt))
            /\ ipc' = "sleeping"
            /\ iout' = iout
       ELSE /\ ipc' = "raised"
            /\ iout' = [kind |-> "error", exc |-> e]
            /\ delay' = delay
    /\ UNCHANGED <<max_retries, attempt, slept>>

\* llm.py:57-62, time.sleep returns; continue, or leave the loop and raise last_exc
SleepReturnsWrong ==
    /\ ipc = "sleeping"
    /\ slept' = slept + 1
    /\ attempt' = attempt + 1
    /\ IF attempt + 1 <= max_retries
       THEN ipc' = "invoking" /\ iout' = iout
       ELSE ipc' = "raised" /\ iout' = [kind |-> "error", exc |-> last_exc]
    /\ UNCHANGED <<max_retries, last_exc, chain_calls, delay>>

SleepReturns ==
    /\ ipc = "sleeping"
    /\ slept' = slept + 1
    /\ attempt' = attempt + 1
    /\ IF attempt + 1 < max_retries
       THEN ipc' = "invoking" /\ iout' = iout
       ELSE ipc' = "raised" /\ iout' = [kind |-> "error", exc |-> last_exc]
    /\ UNCHANGED <<max_retries, last_exc, chain_calls, delay>>

NextInvoker ==
    \/ InvokeReturns
    \/ \E msg \in Messages : InvokeRaises(msg)
    \/ SleepReturns

-----------------------------------------------------------------------------
(* json.loads of the Python standard library, on the characters used here. *)
(* A JSON value is a record [t, v]: t is its type and v its content, a     *)
(* sequence for every type but "obj", whose content is the function from   *)
(* the keys to the member values (a later duplicate key wins, as in dict). *)

WS == {" ", "\n", "\t", "\r"}

S_true == <<"t","r","u","e">>
S_false == <<"f","a","l","s","e">>
S_null == <<"n","u","l","l">>

NullV == [t |-> "null", v |-> <<>>]
BoolV(b) == [t |-> "bool", v |-> <<b>>]
NumV(n) == [t |-> "num", v |-> <<n>>]
FloatV(tok) == [t |-> "float", v |-> tok]
StrV(cs) == [t |-> "str", v |-> cs]
ArrV(vs) == [t |-> "arr", v |-> vs]
ObjV(f) == [t |-> "obj", v |-> f]
EmptyObj == [k \in {} |-> NullV]

PFail == [ok |-> FALSE, val |-> NullV, nxt |-> 0]
POk(val, nxt) == [ok |-> TRUE, val |-> val, nxt |-> nxt]

RECURSIVE SkipWs(_, _)
SkipWs(s, i) == IF i <= Len(s) /\ s[i] \in WS THEN SkipWs(s, i + 1) ELSE i

\* the character an escape sequence \c stands for
Unescape(c) ==
    CASE c = "n" -> "\n"
      [] c = "t" -> "\t"
      [] c = "r" -> "\r"
      [] c = "b" -> "\\b"
      [] c = "f" -> "\\f"
      [] OTHER -> c

\* py_scanstring: the string literal whose opening quote is at i - 1
RECURSIVE ParseString(_, _, _)
ParseString(s, i, acc) ==
    IF i > Len(s) THEN PFail
    ELSE IF s[i] = "\"" THEN POk(acc, i + 1)
    ELSE IF s[i] = "\\"
         THEN IF i + 1 <= Len(s) /\ s[i + 1] \in {"\"", "\\", "/", "b", "f", "n", "r", "t"}
              THEN ParseString(s, i + 2, Append(acc, Unescape(s[i + 1])))
              ELSE PFail
    ELSE IF s[i] \in {"\n", "\t", "\r"} THEN PFail
    ELSE ParseString(s, i + 1, Append(acc, s[i]))

\* a string literal as a value
StringValue(r) == IF r.ok THEN POk(StrV(r.val), r.nxt) ELSE PFail

\* NUMBER_RE: (-?(?:0|[1-9]\d*))(\.\d+)?([eE][-+]?\d+)?
\* p: after the sign; q: after the integer part; r: after the fraction
NumberExp(s, i, p, q, r, x) ==
    IF x > 0 /\ DigitRun(s, x) > 0
    THEN POk(FloatV(Slice(s, i, x + DigitRun(s, x) - 1)), x + DigitRun(s, x))
    ELSE IF r > q THEN POk(FloatV(Slice(s, i, r - 1)), r)
    ELSE POk(NumV((IF s[i] = "-" THEN 0 - 1 ELSE 1) * DigitsValue(Slice(s, p, q - 1))), q)
NumberFrac(s, i, p, q, r) ==
    NumberExp(s, i, p, q, r,
              IF r <= Len(s) /\ s[r] \in {"e", "E"}
              THEN IF r + 1 <= Len(s) /\ s[r + 1] \in {"-", "+"} THEN r + 2 ELSE r + 1
              ELSE 0)
NumberInt(s, i, p, q) ==
    IF q = p THEN PFail
    ELSE IF q <= Len(s) /\ s[q] = "." /\ DigitRun(s, q + 1) > 0
         THEN NumberFrac(s, i, p, q, q + 1 + DigitRun(s, q + 1))
         ELSE NumberFrac(s, i, p, q, q)
NumberSign(s, i, p) ==
    NumberInt(s, i, p, p + (IF p <= Len(s) /\ s[p] = "0" THEN 1 ELSE DigitRun(s, p)))
ParseNumber(s, i) == NumberSign(s, i, IF s[i] = "-" THEN i + 1 ELSE i)

RECURSIVE ParseValue(_, _)
RECURSIVE ParseElems(_, _, _)
RECURSIVE ParseMembers(_, _, _)

\* JSONArray: after the element r, at the position j that follows it
ElemsAfter(s, acc, r, j) ==
    IF ~r.ok \/ j > Len(s) THEN PFail
    ELSE IF s[j] = "]" THEN POk(ArrV(Append(acc, r.val)), j + 1)
    ELSE IF s[j] = "," THEN ParseElems(s, SkipWs(s, j + 1), Append(acc, r.val))
    ELSE PFail
ElemsNext(s, acc, r) == ElemsAfter(s, acc, r, SkipWs(s, r.nxt))

\* JSONObject: after the member with key k and value r, at the position j
MembersAfter(s, acc2, r, j) ==
    IF ~r.ok \/ j > Len(s) THEN PFail
    ELSE IF s[j] = "}" THEN POk(ObjV(acc2), j + 1)
    ELSE IF s[j] = "," THEN ParseMembers(s, SkipWs(s, j + 1), acc2)
    ELSE PFail
MembersValue(s, acc, k, r) ==
    MembersAfter(s, [x \in DOMAIN acc \cup {k.val} |-> IF x = k.val THEN r.val ELSE acc[x]],
                 r, SkipWs(s, r.nxt))
MembersColon(s, acc, k, c) ==
    IF ~k.ok \/ c > Len(s) THEN PFail
    ELSE IF s[c] # ":" THEN PFail
    ELSE MembersValue(s, acc, k, ParseValue(s, SkipWs(s, c + 1)))
MembersKey(s, acc, k) == MembersColon(s, acc, k, SkipWs(s, k.nxt))

\* the first element or member of a container opened at i - 1, at position j
ArrayAt(s, j) ==
    IF j <= Len(s) /\ s[j] = "]" THEN POk(ArrV(<<>>), j + 1) ELSE ParseElems(s, j, <<>>)
ObjectAt(s, j) ==
    IF j <= Len(s) /\ s[j] = "}" THEN POk(ObjV(EmptyObj), j + 1)
    ELSE ParseMembers(s, j, EmptyObj)

\* scan_once
ParseValue(s, i) ==
    IF i > Len(s) THEN PFail
    ELSE CASE s[i] = "\"" -> StringValue(ParseString(s, i + 1, <<>>))
           [] s[i] = "[" -> ArrayAt(s, SkipWs(s, i + 1))
           [] s[i] = "{" -> ObjectAt(s, SkipWs(s, i + 1))
           [] s[i] = "-" \/ IsDigit(s[i]) -> ParseNumber(s, i)
           [] StartsAt(s, S_true, i) -> POk(BoolV(TRUE), i + 4)
           [] StartsAt(s, S_false, i) -> POk(BoolV(FALSE), i + 5)
           [] StartsAt(s, S_null, i) -> POk(NullV, i + 4)
           [] OTHER -> PFail

\* JSONArray: the elements from position i on
ParseElems(s, i, acc) == ElemsNext(s, acc, ParseValue(s, i))

\* JSONObject: the members from position i on
ParseMembers(s, i, acc) ==
    IF i > Len(s) \/ s[i] # "\"" THEN PFail
    ELSE MembersKey(s, acc, ParseString(s, i + 1, <<>>))

\* json.loads(s): one value, surrounded by whitespace only
WholeText(s, r) == IF r.ok /\ SkipWs(s, r.nxt) = Len(s) + 1 THEN r ELSE PFail
JsonLoads(s) == WholeText(s, ParseValue(s, SkipWs(s, 1)))

-----------------------------------------------------------------------------
(* _safe_json_parse                                             llm.py:65  *)

\* the backtick character (a backtick cannot be written in a string here)
BQ == "BACKTICK"

S_fence_json == <<BQ,BQ,BQ,"j","s","o","n">>
S_fence == <<BQ,BQ,BQ>>

\* llm.py:100, the diagnostic markers in the order the loop tries them
DiagMarkers == <<
    <<"\n","E","r","r","o","r",":">>,
    <<"\n","T","r","a","c","e","b","a","c","k">>,
    <<"\n","E","x","c","e","p","t","i","o","n",":">>,
    <<"E","r","r","o","r",":">>,
    <<"T","r","a","c","e","b","a","c","k"," ","(","m","o","s","t"," ","r","e","c","e","n","t"," ","c","a","l","l"," ","l","a","s","t",")">> >>

\* str.strip()
RECURSIVE LStrip(_)
LStrip(s) == IF s # <<>> /\ s[1] \in WS THEN LStrip(Tail(s)) ELSE s
RECURSIVE RStrip(_)
RStrip(s) == IF s # <<>> /\ s[Len(s)] \in WS THEN RStrip(SubSeq(s, 1, Len(s) - 1)) ELSE s
Strip(s) == RStrip(LStrip(s))

StartsWith(s, sub) == StartsAt(s, sub, 1)
EndsWith(s, sub) == Len(sub) <= Len(s) /\ StartsAt(s, sub, Len(s) - Len(sub) + 1)

\* llm.py:79-88, strip, remove the fences, strip
StripFences(s) ==
    LET t1 == Strip(s)
        t2 == IF StartsWith(t1, S_fence_json) THEN Slice(t1, 8, Len(t1))
              ELSE IF StartsWith(t1, S_fence) THEN Slice(t1, 4, Len(t1))
              ELSE t1
        t3 == IF EndsWith(t2, S_fence) THEN Slice(t2, 1, Len(t2) - 3) ELSE t2
    IN  Strip(t3)

\* llm.py:100-103, cut the text at each marker in turn
RECURSIVE StripMarkers(_, _)
StripMarkers(s, k) ==
    IF k > Len(DiagMarkers) THEN s
    ELSE LET idx == Find(s, DiagMarkers[k])
         IN  StripMarkers(IF idx # 0 THEN Strip(Slice(s, 1, idx - 1)) ELSE s, k + 1)

\* llm.py:106-119, the first "{" or "[", 0 when there is none
FindStartWrong(s) ==
    IF Find(s, <<"{">>) = 0 /\ Find(s, <<"[">>) = 0 THEN 0 ELSE 1

FindStart(s) ==
    LET first_curly == Find(s, <<"{">>)
        first_brack == Find(s, <<"[">>)
    IN  IF first_curly = 0 THEN first_brack
        ELSE IF first_brack = 0 THEN first_curly
        ELSE IF first_curly < first_brack THEN first_curly ELSE first_brack

\* llm.py:155-157, one closer per open entry, innermost first
ClosersWrong(st) ==
    <<"\"">> \o [k \in 1..Len(st) |-> IF st[Len(st) + 1 - k] = "{" THEN "}" ELSE "]"]

RECURSIVE Closers(_)
Closers(st) ==
    IF st = <<>> THEN <<>>
    ELSE <<IF st[Len(st)] = "{" THEN "}" ELSE "]">> \o Closers(SubSeq(st, 1, Len(st) - 1))

\* llm.py:180, re.sub: drop every comma that is followed by optional whitespace
\* and a closing brace or bracket
RECURSIVE RemoveTrailingCommas(_, _)
RemoveTrailingCommas(s, p) ==
    IF p > Len(s) THEN <<>>
    ELSE LET q == SkipWs(s, p + 1)
             hit == s[p] = "," /\ q <= Len(s) /\ s[q] \in {"}", "]"}
         IN  (IF hit THEN <<>> ELSE <<s[p]>>) \o RemoveTrailingCommas(s, p + 1)

\* the initial value of string_char (Python's empty string)
NoChar == "none"

PValue(v, via) == [kind |-> "value", val |-> v, via |-> via]
PError(reason) == [kind |-> "error", val |-> NullV, via |-> reason]
PNone == [kind |-> "none", val |-> NullV, via |-> "none"]

InitParser ==
    /\ start = 0
    /\ pos = 0
    /\ stack = <<>>
    /\ in_string = FALSE
    /\ string_char = NoChar
    /\ escape = FALSE
    /\ end = 0
    /\ pout = PNone

\* llm.py:76-91
P_Clean ==
    /\ ppc = "clean"
    /\ IF Strip(text) = <<>>
       THEN /\ ppc' = "done"
            /\ pout' = PError("empty")
            /\ text' = text
       ELSE LET t == StripFences(text)
            IN  /\ text' = t
                /\ IF t = <<>>
                   THEN ppc' = "done" /\ pout' = PError("empty_after_cleaning")
                   ELSE ppc' = "direct" /\ pout' = pout
    /\ UNCHANGED <<raw, start, pos, stack, in_string, string_char, escape, end>>

\* llm.py:93-97
P_DirectWrong ==
    /\ ppc = "direct"
    /\ ppc' = "markers"
    /\ UNCHANGED <<raw, text, start, pos, stack, in_string, string_char, escape, end, pout>>

P_Direct ==
    /\ ppc = "direct"
    /\ LET r == JsonLoads(text)
       IN  IF r.ok
           THEN ppc' = "done" /\ pout' = PValue(r.val, "direct")
           ELSE ppc' = "markers" /\ pout' = pout
    /\ UNCHANGED <<raw, text, start, pos, stack, in_string, string_char, escape, end>>

\* llm.py:99-119
P_Markers ==
    /\ ppc = "markers"
    /\ LET t == StripMarkers(text, 1)
           st == FindStart(t)
           r == JsonLoads(t)
       IN  /\ text' = t
           /\ start' = st
           /\ IF st = 0
              THEN /\ ppc' = "done"
                   /\ pout' = IF r.ok THEN PValue(r.val, "no_container")
                                      ELSE PError("no_container")
                   /\ pos' = pos
              ELSE /\ ppc' = "scan"
                   /\ pos' = st
                   /\ pout' = pout
    /\ UNCHANGED <<raw, stack, in_string, string_char, escape, end>>

\* llm.py:127-151, one iteration of the scan loop on ch = text[pos]
P_ScanStepWrong ==
    /\ ppc = "scan"
    /\ pos <= Len(text)
    /\ LET ch == text[pos]
           pops == ~escape /\ ~in_string /\ ch \in {"}", "]"} /\ stack # <<>>
           found == pops /\ Len(stack) = 1
       IN  /\ escape' = (~escape /\ ch = "\\" /\ in_string)
           /\ IF ~escape /\ ~(ch = "\\" /\ in_string) /\ ch \in {"\"", "'"}
              THEN /\ in_string' = IF ~in_string THEN TRUE
                                   ELSE IF ch = string_char THEN FALSE ELSE TRUE
                   /\ string_char' = IF ~in_string THEN ch ELSE string_char
              ELSE UNCHANGED <<in_string, string_char>>
           /\ stack' = IF ~escape /\ ch \in {"{", "["} THEN Append(stack, ch)
                       ELSE IF pops THEN SubSeq(stack, 1, Len(stack) - 1)
                       ELSE stack
           /\ IF found
              THEN end' = pos /\ pos' = pos /\ ppc' = "balanced"
              ELSE /\ end' = end
                   /\ pos' = pos + 1
                   /\ ppc' = IF pos + 1 > Len(text) THEN "unbalanced" ELSE "scan"
    /\ UNCHANGED <<raw, text, start, pout>>

P_ScanStep ==
    /\ ppc = "scan"
    /\ pos <= Len(text)
    /\ LET ch == text[pos]
           pops == ~escape /\ ~in_string /\ ch \in {"}", "]"} /\ stack # <<>>
           found == pops /\ Len(stack) = 1
       IN  /\ escape' = (~escape /\ ch = "\\" /\ in_string)
           /\ IF ~escape /\ ~(ch = "\\" /\ in_string) /\ ch \in {"\"", "'"}
              THEN /\ in_string' = IF ~in_string THEN TRUE
                                   ELSE IF ch = string_char THEN FALSE ELSE TRUE
                   /\ string_char' = IF ~in_string THEN ch ELSE string_char
              ELSE UNCHANGED <<in_string, string_char>>
           /\ stack' = IF ~escape /\ ~in_string /\ ch \in {"{", "["} THEN Append(stack, ch)
                       ELSE IF pops THEN SubSeq(stack, 1, Len(stack) - 1)
                       ELSE stack
           /\ IF found
              THEN end' = pos /\ pos' = pos /\ ppc' = "balanced"
              ELSE /\ end' = end
                   /\ pos' = pos + 1
                   /\ ppc' = IF pos + 1 > Len(text) THEN "unbalanced" ELSE "scan"
    /\ UNCHANGED <<raw, text, start, pout>>

\* llm.py:153-172, no balanced end: append closers, else cut at the last closer
P_UnbalancedWrong ==
    /\ ppc = "unbalanced"
    /\ LET c1 == Slice(text, start, Len(text))
           r1 == JsonLoads(c1)
           last_curly == RFindChar(text, "}")
           last_brack == RFindChar(text, "]")
           last == IF last_curly > last_brack THEN last_curly ELSE last_brack
           r2 == JsonLoads(Slice(text, start, last))
       IN  pout' = IF r1.ok THEN PValue(r1.val, "closers")
                   ELSE IF last > 0 /\ last > start
                        THEN IF r2.ok THEN PValue(r2.val, "last_closer")
                                      ELSE PError("after_attempts")
                        ELSE PError("unbalanced")
    /\ ppc' = "done"
    /\ UNCHANGED <<raw, text, start, pos, stack, in_string, string_char, escape, end>>

P_Unbalanced ==
    /\ ppc = "unbalanced"
    /\ LET c1 == Slice(text, start, Len(text)) \o Closers(stack)
           r1 == JsonLoads(c1)
           last_curly == RFindChar(text, "}")
           last_brack == RFindChar(text, "]")
           last == IF last_curly > last_brack THEN last_curly ELSE last_brack
           r2 == JsonLoads(Slice(text, start, last))
       IN  pout' = IF r1.ok THEN PValue(r1.val, "closers")
                   ELSE IF last > 0 /\ last > start
                        THEN IF r2.ok THEN PValue(r2.val, "last_closer")
                                      ELSE PError("after_attempts")
                        ELSE PError("unbalanced")
    /\ ppc' = "done"
    /\ UNCHANGED <<raw, text, start, pos, stack, in_string, string_char, escape, end>>

\* llm.py:174-184, balanced candidate: parse, else remove trailing commas and parse
P_Balanced ==
    /\ ppc = "balanced"
    /\ LET candidate == Strip(Slice(text, start, end))
           r1 == JsonLoads(candidate)
           r2 == JsonLoads(RemoveTrailingCommas(candidate, 1))
       IN  pout' = IF r1.ok THEN PValue(r1.val, "balanced")
                   ELSE IF r2.ok THEN PValue(r2.val, "cleaned")
                   ELSE PError("candidate")
    /\ ppc' = "done"
    /\ UNCHANGED <<raw, text, start, pos, stack, in_string, string_char, escape, end>>

NextParser ==
    \/ P_Clean
    \/ P_Direct
    \/ P_Markers
    \/ P_ScanStep
    \/ P_Unbalanced
    \/ P_Balanced

-----------------------------------------------------------------------------
(* Texts given to _safe_json_parse                                         *)

\* texts that are JSON documents
ValidBodies == {
    <<"{","\"","a","\"",":"," ","1",","," ","\"","b","\"",":"," ","2","}">>,
    <<"{","\"","t","\"",":"," ","\"","F","o","o","\"",","," ","\"","i","\"",":"," ","[","1",",","2",",","3","]","}">>,
    <<"[","1",","," ","2","]">>,
    <<"[","]">>,
    <<"{","\"","a","\"",":"," ","\"","E","r","r","o","r",":"," ","x","\"","}">>,
    <<"[","\"","a","]","\"",","," ","\"","{","b","\"","]">>,
    <<"[","\"","q","\\","\"","x","\"","]">>,
    <<"5">>,
    <<"\"","s","\"">>,
    <<"[","\"","i","t","'","s","\"","]">>,
    <<"[","[","1","]",","," ","{","\"","k","\"",":"," ","[","2","]","}","]">>,
    <<"[","\"","a",",","]","\"","]">>,
    <<"\"","E","r","r","o","r",":"," ","x","\"">>,
    <<"[","\"","x","\\","\\","\"","]">>,
    <<"t","r","u","e">>,
    <<"{","\"","a","\"",":"," ","{","\"","b","\"",":"," ","n","u","l","l","}","}">>,
    <<"\"","[","1","\"">> }

\* objects and arrays whose only defect is a comma before a closer
CommaBodies == {
    <<"{","\"","a","\"",":"," ","1",","," ","\"","b","\"",":"," ","2",",","}">>,
    <<"[","1",","," ","2",","," ","]">>,
    <<"[","[","1",",","]",",","]">>,
    <<"[","\"","a",",","]","\"",",","]">>,
    <<"{","\"","a","\"",":"," ","[","1",",","]",","," ","\"","b","\"",":"," ","\"","x",","," ","}","\"",",","}">>,
    <<"[","\"","E","r","r","o","r",":"," ","x","\"",",","]">> }

\* completions that get cut off: every proper prefix of each is an input
CutSources == {
    <<"{","\"","t","\"",":"," ","\"","T","r","\"",","," ","\"","s","\"",":"," ","\"","i","n","c",".",".",".">>,
    <<"[","{","\"","q","\"",":"," ","\"","a","\"","}",","," ","{","\"","q","\"",":"," ","\"","b","\"","}","]">>,
    <<"{","\"","a","\"",":"," ","[","1",","," ","2","]",","," ","\"","b","\"",":"," ","\"","x","]","\"","}">>,
    <<"[","\"","a","\\","\"","b","\"",","," ","7","]">>,
    <<"[","\"","E","r","r","o","r",":"," ","x","\"",","," ","1","]">> }
CutBodies == UNION {{SubSeq(b, 1, n) : n \in 1..(Len(b) - 1)} : b \in CutSources}

\* what precedes the JSON: nothing, a fence, or prose
Leads == {
    <<>>,
    <<BQ,BQ,BQ,"j","s","o","n","\n">>,
    <<BQ,BQ,BQ,"\n">>,
    <<"H","e","r","e",":","\n">> }

\* what follows the JSON: a fence, diagnostic text, noise
Trails == {
    <<>>,
    <<"\n",BQ,BQ,BQ>>,
    <<"\n",BQ,BQ,BQ,"\n","E","r","r","o","r",":"," ","b","o","o","m">>,
    <<" ","E","r","r","o","r",":"," ","U","n","t","e","r","m","i","n","a","t","e","d">>,
    <<"\n",BQ,BQ,BQ,"\n","T","r","a","c","e","b","a","c","k"," ","(","m","o","s","t"," ","r","e","c","e","n","t"," ","c","a","l","l"," ","l","a","s","t",")">>,
    <<" ","n","o","i","s","e">>,
    <<"\n",BQ,BQ,BQ,"\n","s","e","e"," ","[","1","]">>,
    <<"\n","E","x","c","e","p","t","i","o","n",":"," ","e">> }

ParseInputs ==
    {l \o b \o t : l \in Leads, b \in ValidBodies \cup CommaBodies, t \in Trails}
    \cup CutBodies

-----------------------------------------------------------------------------
(* Specifications of the invoker and of the parser                          *)

\* the name analysis before analyze_article has returned
NoAnalysis ==
    [is_dict |-> FALSE, has_sections |-> FALSE, sections |-> <<>>,
     has_key_entities |-> FALSE, people |-> <<>>, has_summary |-> FALSE, summary |-> <<>>]

\* more_result outside a round of the completion loop
NoCompletion == [kind |-> "none", items |-> <<>>]

IdleInvoker == InitInvoker /\ max_retries = 0 /\ ipc = "idle"
IdleParser == InitParser /\ raw = <<>> /\ text = <<>> /\ ppc = "idle"
\* no request is being served; qpc is left to the specification
NoRequest ==
    /\ data = <<>>
    /\ attempts = 0
    /\ n_initial = 0
    /\ n_merged = 0
    /\ pool = <<>>
    /\ fi = 0
    /\ repairs = 0
    /\ more_calls = 0
    /\ qout = "none"
    /\ entry = "none"
    /\ article = <<>>
    /\ analysis = NoAnalysis
    /\ related_topics = <<>>
    /\ quiz_items = <<>>
    /\ more_result = NoCompletion
    /\ model_calls = 0
    /\ repair_prompts = <<>>

IdleQuiz == NoRequest /\ qpc = "idle"
\* an empty table and no request at the endpoint
IdleServer == store = <<>> /\ requests = <<>>

InitInvoke ==
    /\ InitInvoker
    /\ max_retries \in 1..MaxAttempts
    /\ ipc = "invoking"
    /\ IdleParser
    /\ IdleQuiz
    /\ IdleServer

SpecInvoke == InitInvoke /\ [][NextInvoker /\ UNCHANGED <<pvars, qvars, svars>>]_vars

InitParse ==
    /\ InitParser
    /\ raw \in ParseInputs
    /\ text = raw
    /\ ppc = "clean"
    /\ IdleInvoker
    /\ IdleQuiz
    /\ IdleServer

SpecParse == InitParse /\ [][NextParser /\ UNCHANGED <<ivars, qvars, svars>>]_vars

-----------------------------------------------------------------------------
(* Claims about _invoke_chain_with_retries, checked under SpecInvoke       *)

\* the latest chain.invoke raised, and its error is still the one in hand
JustRaised == chain_calls > 0 /\ last_exc.id = chain_calls

\* C1: whenever the invoker is suspended in time.sleep, the duration it
\* sleeps for is at most 120 seconds and not negative, whichever backoff
\* rule produced it.
C1_WaitBounded ==
    ipc = "sleeping" =>
        /\ delay.den > 0
        /\ delay.num >= 0
        /\ delay.num <= 120 * delay.den

\* a "retry in 300s" hint, or a retryDelay of 130s, was clamped to 120
C1_Witness ==
    /\ ipc = "sleeping"
    /\ BackoffDelay(last_exc.msg, attempt).num > 120 * BackoffDelay(last_exc.msg, attempt).den
    /\ delay = [num |-> 120, den |-> 1]

\* C2: with max_retries = n >= 1 the chain is invoked at most n times; when
\* all n invocations fail with rate-limited errors the invoker raises the
\* error of the n-th invocation; a successful invocation is returned at once
\* and nothing is invoked after it.
C2_AtMostNCalls ==
    /\ chain_calls <= max_retries
    /\ (ipc = "raised" /\ attempt = max_retries) =>
            /\ chain_calls = max_retries
            /\ iout.kind = "error"
            /\ iout.exc.id = max_retries
    /\ ipc = "returned" =>
            /\ iout = [kind |-> "value", call |-> chain_calls]
            /\ ~ENABLED NextInvoker

\* three rate-limited failures exhaust the default budget
C2_Witness ==
    /\ ipc = "raised"
    /\ max_retries = 3
    /\ attempt = max_retries
    /\ iout.exc.id = 3

\* C3: an error whose message contains none of the rate-limit markers is
\* raised to the caller as it is, on whichever attempt it occurs, with no
\* wait for it and no further invocation.
C3_FatalPropagates ==
    (JustRaised /\ ~HasMarkerAnyCase(last_exc.msg)) =>
        /\ ipc = "raised"
        /\ iout = [kind |-> "error", exc |-> last_exc]
        /\ slept = chain_calls - 1
        /\ ~ENABLED NextInvoker

\* a fatal error on the second attempt, after one rate-limited attempt
C3_Witness ==
    /\ JustRaised
    /\ ~HasMarkerAnyCase(last_exc.msg)
    /\ chain_calls = 2
    /\ ipc = "raised"

\* an error message that contains RESOURCE_EXHAUSTED or 429 as written, or
\* quota or rate limit in any letter case
HasMarkerAsCoded(msg) ==
    \/ \E p \in DOMAIN msg : StartsAt(msg, S_RESOURCE_EXHAUSTED, p)
    \/ \E p \in DOMAIN msg : StartsAt(msg, S_429, p)
    \/ \E p \in DOMAIN msg : StartsAt(Lower(msg), S_quota, p)
    \/ \E p \in DOMAIN msg : StartsAt(Lower(msg), S_rate_limit, p)

\* C4 as stated: an error is retried (the invoker sleeps for it) if and only
\* if its message contains one of the four markers in any letter case.
C4_Original ==
    /\ (JustRaised /\ ipc = "sleeping") => HasMarkerAnyCase(last_exc.msg)
    /\ (JustRaised /\ ipc = "raised" /\ slept < chain_calls) => ~HasMarkerAnyCase(last_exc.msg)

\* C4 amended: an error is retried if and only if its message contains
\* RESOURCE_EXHAUSTED in upper case, or 429, or quota or rate limit in any
\* letter case.
C4_RetriedIffMarkerAsCoded ==
    /\ (JustRaised /\ ipc = "sleeping") => HasMarkerAsCoded(last_exc.msg)
    /\ (JustRaised /\ ipc = "raised" /\ slept < chain_calls) => ~HasMarkerAsCoded(last_exc.msg)

\* "resource_exhausted" in lower case, raised at once on the second attempt
C4_Witness ==
    /\ JustRaised
    /\ ipc = "raised"
    /\ slept = 1
    /\ chain_calls = 2
    /\ Contains(last_exc.msg, Lower(S_RESOURCE_EXHAUSTED))

-----------------------------------------------------------------------------
(* Claims about _safe_json_parse, checked under SpecParse                  *)

FenceLeads == {S_fence_json \o <<"\n">>, S_fence \o <<"\n">>}
FencedDiagTrails == {
    <<"\n",BQ,BQ,BQ,"\n","E","r","r","o","r",":"," ","b","o","o","m">>,
    <<"\n",BQ,BQ,BQ,"\n","T","r","a","c","e","b","a","c","k"," ","(","m","o","s","t"," ","r","e","c","e","n","t"," ","c","a","l","l"," ","l","a","s","t",")">> }

\* C5: a JSON value, whatever its string literals contain, wrapped in a
\* leading fence, a trailing fence and trailing diagnostic text, is
\* recovered exactly.
C5_FencedValueRecovered ==
    ppc = "done" =>
        \A l \in FenceLeads, b \in ValidBodies, t \in FencedDiagTrails :
            raw = l \o b \o t =>
                /\ pout.kind = "value"
                /\ pout.val = JsonLoads(b).val

\* C6: on a text that is by itself a JSON document the parser returns what
\* json.loads returns for that text, and does not fail.
C6_IdentityOnValidJson ==
    (ppc = "done" /\ JsonLoads(raw).ok) =>
        /\ pout.kind = "value"
        /\ pout.val = JsonLoads(raw).val

\* a JSON document with the marker Error: inside a string, returned whole
C6_Witness ==
    /\ ppc = "done"
    /\ JsonLoads(raw).ok
    /\ Contains(raw, DiagMarkers[4])
    /\ pout.kind = "value"
    /\ pout.val.t = "obj"

\* the text without the commas that stand, outside string literals, before
\* a closing brace or bracket (p: position, ins: inside a string literal)
RECURSIVE DeleteDefectCommas(_, _, _)
DeleteDefectCommas(s, p, ins) ==
    IF p > Len(s) THEN <<>>
    ELSE IF ins
         THEN IF s[p] = "\\"
              THEN Slice(s, p, p + 1) \o DeleteDefectCommas(s, p + 2, TRUE)
              ELSE <<s[p]>> \o DeleteDefectCommas(s, p + 1, s[p] # "\"")
    ELSE LET q == SkipWs(s, p + 1)
             defect == s[p] = "," /\ q <= Len(s) /\ s[q] \in {"}", "]"}
         IN  (IF defect THEN <<>> ELSE <<s[p]>>)
                \o DeleteDefectCommas(s, p + 1, s[p] = "\"")

\* C7: an object or array whose only defect is a comma before a closing
\* brace or bracket, followed by trailing noise, is recovered as the value
\* it has once those commas are deleted.
C7_TrailingCommaRecovered ==
    ppc = "done" =>
        \A b \in CommaBodies, t \in Trails :
            raw = b \o t =>
                /\ pout.kind = "value"
                /\ pout.val = JsonLoads(DeleteDefectCommas(b, 1, FALSE)).val

\* the text ends inside a JSON string literal
RECURSIVE EndsInsideString(_, _, _)
EndsInsideString(s, p, ins) ==
    IF p > Len(s) THEN ins
    ELSE IF ins /\ s[p] = "\\" THEN p + 1 > Len(s) \/ EndsInsideString(s, p + 2, TRUE)
    ELSE IF s[p] = "\"" THEN EndsInsideString(s, p + 1, ~ins)
    ELSE EndsInsideString(s, p + 1, ins)

\* C8: a JSON container cut off inside a string literal makes the parser
\* fail: the scan ends inside the string, and the synthesized closers do
\* not yield a value.
C8_CutInsideStringFails ==
    (ppc = "done" /\ raw \in CutBodies /\ EndsInsideString(raw, 1, FALSE)) =>
        /\ in_string
        /\ end = 0
        /\ pout.kind = "error"

\* the completion of the repository's test 3, cut inside its second string
C8_Witness ==
    /\ ppc = "done"
    /\ raw \in CutBodies
    /\ EndsInsideString(raw, 1, FALSE)
    /\ Len(stack) = 1
    /\ Len(raw) > 20
    /\ pout.kind = "error"

-----------------------------------------------------------------------------
(* Strings of the article and of the candidate pools.  The quiz code only  *)
(* splits them at "." and "\n", strips them, measures and compares them,   *)
(* so a string is kept as a sequence of tokens [w, n]: a run of n          *)
(* characters that is a word w, a "." , a "\n" or a run of spaces.         *)

Tok(w, n) == [w |-> w, n |-> n]
Word(w, n) == <<Tok(w, n)>>

IsWsTok(t) == t.w \in {" ", "\n"}

\* len(s)
RECURSIVE LenT(_)
LenT(s) == IF s = <<>> THEN 0 ELSE s[1].n + LenT(Tail(s))

\* s.strip()
RECURSIVE LStripT(_)
LStripT(s) == IF s # <<>> /\ IsWsTok(s[1]) THEN LStripT(Tail(s)) ELSE s
RECURSIVE RStripT(_)
RStripT(s) == IF s # <<>> /\ IsWsTok(s[Len(s)]) THEN RStripT(SubSeq(s, 1, Len(s) - 1)) ELSE s
StripT(s) == RStripT(LStripT(s))

\* s[:n]
RECURSIVE TruncateT(_, _)
TruncateT(s, n) ==
    IF s = <<>> \/ n <= 0 THEN <<>>
    ELSE IF s[1].n <= n THEN <<s[1]>> \o TruncateT(Tail(s), n - s[1].n)
    ELSE <<Tok(s[1].w, n)>>

\* s.split(sep) for a one-character separator
RECURSIVE SplitT(_, _, _)
SplitT(s, sep, acc) ==
    IF s = <<>> THEN <<acc>>
    ELSE IF s[1].w = sep THEN <<acc>> \o SplitT(Tail(s), sep, <<>>)
    ELSE SplitT(Tail(s), sep, Append(acc, s[1]))

\* [x.strip() for x in parts if x.strip()]
RECURSIVE StrippedNonEmpty(_)
StrippedNonEmpty(parts) ==
    IF parts = <<>> THEN <<>>
    ELSE (IF StripT(parts[1]) # <<>> THEN <<StripT(parts[1])>> ELSE <<>>)
            \o StrippedNonEmpty(Tail(parts))

\* len(p) > 3
LongEnough(p) == LenT(p) > 3

\* list(dict.fromkeys(pool)): the first occurrence of each entry, in order
RECURSIVE Dedupe(_, _)
Dedupe(s, seen) ==
    IF s = <<>> THEN <<>>
    ELSE (IF s[1] \in seen THEN <<>> ELSE <<s[1]>>) \o Dedupe(Tail(s), seen \cup {s[1]})

\* the orders random.shuffle can leave a list in
Perms(s) ==
    {[i \in DOMAIN s |-> s[f[i]]] :
        f \in {g \in [DOMAIN s -> DOMAIN s] : \A i, j \in DOMAIN s : i # j => g[i] # g[j]}}

\* [d for d in pool if d != correct]
RECURSIVE Without(_, _)
Without(s, x) ==
    IF s = <<>> THEN <<>>
    ELSE (IF s[1] = x THEN <<>> ELSE <<s[1]>>) \o Without(Tail(s), x)

Min(a, b) == IF a < b THEN a ELSE b

\* the entries distractors[:3] can hold after random.shuffle(distractors):
\* any three of them (all of them when there are fewer), as sets of indices
DistractorPicks(d) == {S \in SUBSET DOMAIN d : Cardinality(S) = Min(3, Len(d))}

\* opts = [correct] + distractors[:3] after random.shuffle(opts).  The order
\* of a shuffled list is arbitrary, so the options are kept as the bag of
\* their entries (entry |-> number of occurrences).
OptionsBag(correct, d, S) ==
    [e \in {correct} \cup {d[i] : i \in S} |->
        IF e = correct THEN 1 ELSE Cardinality({i \in S : d[i] = e})]
EmptyBag == [e \in {} |-> 0]

-----------------------------------------------------------------------------
(* Question items                                                           *)

\* the fixed question of a filler item (llm.py:343, main.py:102)
QTemplate == "Which of the following is mentioned in the article?"
\* q.get("question") of an item without that key
Absent == "<no question key>"
\* the default of q.get("question", "") at llm.py:296
EmptyText == "<empty string>"

\* a question object of a completion; only its question text is ever read
Item(q) == [kind |-> "dict", question |-> q, answer |-> <<>>, options |-> EmptyBag]
\* an element of the parsed list that is not a JSON object
NonDictItem == [kind |-> "nondict", question |-> Absent, answer |-> <<>>, options |-> EmptyBag]
\* llm.py:342-348, main.py:101-107
Filler(correct, opts) ==
    [kind |-> "filler", question |-> QTemplate, answer |-> correct, options |-> opts]

\* llm.py:296, the key of an item of data in existing_qs
KeyInData(it) == IF it.question = Absent THEN EmptyText ELSE it.question
\* llm.py:300, q.get("question") of a supplemental item (None when absent)
KeyInMore(it) == it.question

\* llm.py:297-303, append the items of more whose key is not yet seen
RECURSIVE MergeWrong(_, _, _)
MergeWrong(d, more, seen) ==
    IF more = <<>> THEN d
    ELSE IF more[1].kind # "dict" THEN MergeWrong(d, Tail(more), seen)
    ELSE IF KeyInMore(more[1]) \in seen THEN MergeWrong(d, Tail(more), seen)
    ELSE MergeWrong(Append(d, more[1]), Tail(more), seen)

RECURSIVE MergeUnchecked(_, _, _)
MergeUnchecked(d, more, seen) ==
    IF more = <<>> THEN d
    ELSE IF more[1].kind # "dict" THEN MergeUnchecked(d, Tail(more), seen)
    ELSE MergeUnchecked(Append(d, more[1]), Tail(more), seen \cup {KeyInMore(more[1])})

RECURSIVE Merge(_, _, _)
Merge(d, more, seen) ==
    IF more = <<>> THEN d
    ELSE IF more[1].kind # "dict" THEN Merge(d, Tail(more), seen)
    ELSE IF KeyInMore(more[1]) \in seen THEN Merge(d, Tail(more), seen)
    ELSE Merge(Append(d, more[1]), Tail(more), seen \cup {KeyInMore(more[1])})

Target == 10
MaxSupplemental == 3
MaxChars == 8000
MinChars == 100

-----------------------------------------------------------------------------
(* generate_quiz of app/llm.py and the fallback of the endpoint             *)

\* article_text[:8000].strip()
TextToSend(t) == StripT(TruncateT(t, MaxChars))
\* llm.py:243-249 (the same test opens analyze_article and generate_related_topics)
InputOkWrong(t) == t # <<>> /\ StripT(t) # <<>> /\ LenT(StripT(t)) >= MinChars

InputOk(t) == t # <<>> /\ StripT(t) # <<>> /\ LenT(TextToSend(t)) >= MinChars

\* llm.py:324-332
LlmPool(t) ==
    SelectSeq(SplitT(t, "\n", <<>>) \o StrippedNonEmpty(SplitT(t, ".", <<>>)), LongEnough)

\* main.py:75-86; analysis.get("key_entities") or analysis.get("summary") is
\* None when the key is missing, and None.get / None.split raise
EndpointPoolRaises(a) == a.is_dict /\ (~a.has_key_entities \/ ~a.has_summary)
EndpointCandidates(a, rt) ==
    (IF a.is_dict /\ a.has_sections THEN a.sections ELSE <<>>)
        \o rt
        \o (IF a.is_dict THEN a.people ELSE <<>>)
        \o StrippedNonEmpty(SplitT(IF a.is_dict THEN a.summary ELSE <<>>, ".", <<>>))
\* main.py:88
EndpointPool(a, rt) == SelectSeq(Dedupe(EndpointCandidates(a, rt), {}), LongEnough)

\* ---- what the outside world can hand to the code ----

\* texts the endpoint can get from the scraper (len(text.strip()) >= 100);
\* the last one holds under 100 characters besides blanks in its first 8000
ScrapedArticles ==
    { Word("A", 120),
      Word("A", 120) \o <<Tok("\n", 1)>> \o Word("B", 150) \o <<Tok(".", 1)>> \o Word("C", 130),
      Word("head", 50) \o <<Tok(" ", 7990)>> \o Word("tail", 200) }
\* texts a direct caller of llm.generate_quiz can pass
Articles ==
    ScrapedArticles \cup {<<>>, <<Tok(" ", 3), Tok("\n", 1)>>, Word("short", 50)}

\* question texts of model completions
QNames == <<"q1", "q2", "q3", "q4", "q5", "q6", "q7", "q8", "q9", "q10", "q11", "q12", "q13", "q14">>
Questions(k) == [i \in 1..k |-> Item(QNames[i])]

MaxInitial == 11
MaxMore == 2

\* what a model call comes back with: an exception, no content, a text that
\* _safe_json_parse rejects, or a text that it parses to a value
Completion(kind, items) == [kind |-> kind, items |-> items]
NoListCompletions == {Completion(k, <<>>) : k \in {"raise", "empty", "unparsable", "nonlist"}}

\* lists the initial (or repaired) completion can parse to
InitialLists ==
    {Questions(k) : k \in {5} \cup (8..MaxInitial)} \cup
    { Questions(8) \o <<Item("q1")>>,
      Questions(8) \o <<NonDictItem>>,
      <<Item(Absent)>> \o Questions(8) }
InitialCompletions == NoListCompletions \cup {Completion("list", l) : l \in InitialLists}
\* what the repair request can come back with
RepairCompletions == NoListCompletions \cup {Completion("list", Questions(9))}

\* lists a supplemental completion can parse to
MoreItems == {Item("q1"), Item("n1"), Item("n2"), Item(Absent), NonDictItem}
MoreLists == UNION {[1..n -> MoreItems] : n \in 0..MaxMore}
MoreCompletions == NoListCompletions \cup {Completion("list", l) : l \in MoreLists}

\* an analysis object with sections and a summary
FullAnalysis ==
    [is_dict |-> TRUE,
     has_sections |-> TRUE,
     sections |-> <<Word("History", 7), Word("Geography", 9), Word("History", 7)>>,
     has_key_entities |-> TRUE, people |-> <<Word("ab", 2)>>,
     has_summary |-> TRUE,
     summary |-> Word("ab", 2) \o <<Tok(".", 1), Tok(" ", 1)>> \o Word("It is a town", 12)
                     \o <<Tok(".", 1)>>]
\* values the analysis completion can parse to: a JSON array, an object, an
\* object without key_entities
Analyses ==
    { [NoAnalysis EXCEPT !.sections = <<Word("History", 7)>>],
      FullAnalysis,
      [is_dict |-> TRUE,
       has_sections |-> TRUE, sections |-> <<Word("History", 7), Word("Geography", 9)>>,
       has_key_entities |-> FALSE, people |-> <<>>,
       has_summary |-> TRUE, summary |-> Word("It is a town", 12)] }
\* what the analysis request can come back with
AnalyzeOutcomes ==
    {[kind |-> k, value |-> NoAnalysis] : k \in {"raise", "empty", "unparsable"}}
        \cup {[kind |-> "value", value |-> a] : a \in Analyses}
\* what the repair request of analyze_article can come back with
AnalyzeRepairOutcomes ==
    {[kind |-> k, value |-> NoAnalysis] : k \in {"raise", "empty", "unparsable"}}
        \cup {[kind |-> "value", value |-> [NoAnalysis EXCEPT !.sections = <<Word("History", 7)>>]]}
\* lists generate_related_topics can return
RelatedLists == {<<>>, <<Word("History", 7)>>, <<Word("Mathematics", 11), Word("Geography", 9)>>}

RelatedOutcomes ==
    {[ok |-> FALSE, value |-> <<>>]} \cup {[ok |-> TRUE, value |-> l] : l \in RelatedLists}

LoopGoesOnWrong(d, a) == Len(d) <= Target /\ a < MaxSupplemental

LoopGoesOn(d, a) == Len(d) < Target /\ a < MaxSupplemental

InitQuiz ==
    /\ data = <<>>
    /\ attempts = 0
    /\ n_initial = 0
    /\ n_merged = 0
    /\ pool = <<>>
    /\ fi = 0
    /\ repairs = 0
    /\ more_calls = 0
    /\ qout = "none"
    /\ analysis = NoAnalysis
    /\ related_topics = <<>>
    /\ quiz_items = <<>>
    /\ more_result = NoCompletion
    /\ model_calls = 0
    /\ repair_prompts = <<>>
    /\ \/ entry = "endpoint" /\ article \in ScrapedArticles /\ qpc = "analyze"
       \/ entry = "direct" /\ article \in Articles /\ qpc = "quiz_start"
       \/ entry = "direct_analyze" /\ article \in Articles /\ qpc = "analyze"
       \/ entry = "direct_related" /\ article \in Articles /\ qpc = "related"

\* an exception leaves the operation; the endpoint turns it into HTTP 500
Fail(exc) ==
    /\ qpc' = "done"
    /\ qout' = IF entry = "endpoint" THEN "http500" ELSE exc

\* llm.py:228-238, analyze_article returns the parsed value v as it is
AnalysisReturns(v) ==
    /\ analysis' = v
    /\ IF entry = "direct_analyze"
       THEN qpc' = "done" /\ qout' = "returned"
       ELSE qpc' = "quiz_start" /\ UNCHANGED qout

\* main.py:63, analyze_article up to its first parse (llm.py:215-232)
Q_Analyze ==
    /\ qpc = "analyze"
    /\ IF ~InputOk(article)
       THEN Fail("ValueError") /\ UNCHANGED <<analysis, model_calls>>
       ELSE /\ model_calls' = model_calls + 1
            /\ \E r \in AnalyzeOutcomes :
                  CASE r.kind = "raise" -> Fail("raised") /\ UNCHANGED analysis
                    [] r.kind = "empty" -> Fail("ValueError") /\ UNCHANGED analysis
                    [] r.kind = "unparsable" ->
                          qpc' = "analyze_repair" /\ UNCHANGED <<analysis, qout>>
                    [] OTHER -> AnalysisReturns(r.value)
    /\ UNCHANGED <<data, attempts, n_initial, n_merged, pool, fi, repairs, more_calls,
                   entry, article, related_topics, quiz_items, more_result, repair_prompts>>

\* llm.py:233-238, the repair of analyze_article
Q_AnalyzeRepair ==
    /\ qpc = "analyze_repair"
    /\ model_calls' = model_calls + 1
    /\ repair_prompts' = Append(repair_prompts, "REPAIR_ANALYSIS_PROMPT")
    /\ \E r \in AnalyzeRepairOutcomes :
          IF r.kind = "value"
          THEN AnalysisReturns(r.value)
          ELSE Fail("RepairFailed") /\ UNCHANGED analysis
    /\ UNCHANGED <<data, attempts, n_initial, n_merged, pool, fi, repairs, more_calls,
                   entry, article, related_topics, quiz_items, more_result>>

\* llm.py:243-249
Q_Start ==
    /\ qpc = "quiz_start"
    /\ IF InputOk(article)
       THEN qpc' = "quiz_initial" /\ UNCHANGED qout
       ELSE Fail("ValueError")
    /\ UNCHANGED <<data, attempts, n_initial, n_merged, pool, fi, repairs, more_calls,
                   entry, article, analysis, related_topics, quiz_items,
                   more_result, model_calls, repair_prompts>>

\* llm.py:266-271 for the value r parsed from the initial or repaired text
AcceptParsed(r) ==
    IF r.kind = "list"
    THEN /\ data' = r.items
         /\ n_initial' = Len(r.items)
         /\ attempts' = 0
         /\ qpc' = IF LoopGoesOn(r.items, 0) THEN "quiz_loop" ELSE "quiz_fallback"
         /\ UNCHANGED qout
    ELSE /\ Fail("ValueError")
         /\ UNCHANGED <<data, n_initial, attempts>>

\* llm.py:251-271
Q_Initial ==
    /\ qpc = "quiz_initial"
    /\ model_calls' = model_calls + 1
    /\ \E r \in InitialCompletions :
          CASE r.kind = "raise" ->
                  Fail("raised") /\ UNCHANGED <<data, n_initial, attempts>>
            [] r.kind = "empty" ->
                  Fail("ValueError") /\ UNCHANGED <<data, n_initial, attempts>>
            [] r.kind = "unparsable" ->
                  qpc' = "quiz_repair" /\ UNCHANGED <<data, n_initial, attempts, qout>>
            [] OTHER -> AcceptParsed(r)
    /\ UNCHANGED <<n_merged, pool, fi, repairs, more_calls,
                   entry, article, analysis, related_topics, quiz_items,
                   more_result, repair_prompts>>

\* llm.py:260-271
Q_RepairWrong ==
    /\ qpc = "quiz_repair"
    /\ repairs' = repairs + 1
    /\ model_calls' = model_calls + 1
    /\ repair_prompts' = Append(repair_prompts, "REPAIR_QUIZ_PROMPT")
    /\ \E r \in RepairCompletions :
          IF r.kind \in {"raise", "empty", "unparsable"}
          THEN /\ qpc' = IF repairs = 0 THEN "quiz_repair" ELSE "done"
               /\ qout' = IF repairs = 0 THEN qout ELSE "RepairFailed"
               /\ UNCHANGED <<data, n_initial, attempts>>
          ELSE AcceptParsed(r)
    /\ UNCHANGED <<n_merged, pool, fi, more_calls,
                   entry, article, analysis, related_topics, quiz_items, more_result>>

Q_Repair ==
    /\ qpc = "quiz_repair"
    /\ repairs' = repairs + 1
    /\ model_calls' = model_calls + 1
    /\ repair_prompts' = Append(repair_prompts, "REPAIR_QUIZ_PROMPT")
    /\ \E r \in RepairCompletions :
          IF r.kind \in {"raise", "empty", "unparsable"}
          THEN Fail("RepairFailed") /\ UNCHANGED <<data, n_initial, attempts>>
          ELSE AcceptParsed(r)
    /\ UNCHANGED <<n_merged, pool, fi, more_calls,
                   entry, article, analysis, related_topics, quiz_items, more_result>>

\* the keys of existing_qs built at llm.py:296
ExistingQs(d) == {KeyInData(d[i]) : i \in DOMAIN d}
HasNonDict(d) == \E i \in DOMAIN d : d[i].kind = "nondict"

\* llm.py:271-287, a round of the completion loop up to its model call
Q_More ==
    /\ qpc = "quiz_loop"
    /\ LoopGoesOn(data, attempts)
    /\ more_calls' = more_calls + 1
    /\ model_calls' = model_calls + 1
    /\ \E r \in MoreCompletions :
          IF r.kind = "raise"
          THEN \* line 287 is outside the try block
               Fail("raised") /\ UNCHANGED more_result
          ELSE more_result' = r /\ qpc' = "quiz_merge" /\ UNCHANGED qout
    /\ UNCHANGED <<data, attempts, n_initial, n_merged, pool, fi, repairs,
                   entry, article, analysis, related_topics, quiz_items, repair_prompts>>

\* llm.py:288-314, the rest of the round: parse and merge more_result
Q_MergeWrong ==
    /\ qpc = "quiz_merge"
    /\ more_result' = NoCompletion
    /\ CASE more_result.kind \in {"unparsable"} ->
               \* break
               qpc' = "quiz_fallback" /\ UNCHANGED <<data, attempts>>
         [] more_result.kind \in {"empty", "nonlist"} ->
               /\ attempts' = attempts + 1
               /\ qpc' = IF LoopGoesOn(data, attempts + 1) THEN "quiz_loop" ELSE "quiz_fallback"
               /\ UNCHANGED data
         [] more_result.kind = "list" /\ HasNonDict(data) ->
               \* q.get of a non-object at line 296 raises; except: break
               qpc' = "quiz_fallback" /\ UNCHANGED <<data, attempts>>
         [] OTHER ->
               /\ data' = Merge(data, more_result.items, ExistingQs(data))
               /\ attempts' = attempts + 1
               /\ qpc' = IF LoopGoesOn(data', attempts + 1) THEN "quiz_loop" ELSE "quiz_fallback"
    /\ UNCHANGED <<n_initial, n_merged, pool, fi, repairs, more_calls, qout,
                   entry, article, analysis, related_topics, quiz_items,
                   model_calls, repair_prompts>>

Q_Merge ==
    /\ qpc = "quiz_merge"
    /\ more_result' = NoCompletion
    /\ CASE more_result.kind \in {"empty", "unparsable"} ->
               \* break
               qpc' = "quiz_fallback" /\ UNCHANGED <<data, attempts>>
         [] more_result.kind = "nonlist" ->
               /\ attempts' = attempts + 1
               /\ qpc' = IF LoopGoesOn(data, attempts + 1) THEN "quiz_loop" ELSE "quiz_fallback"
               /\ UNCHANGED data
         [] more_result.kind = "list" /\ HasNonDict(data) ->
               \* q.get of a non-object at line 296 raises; except: break
               qpc' = "quiz_fallback" /\ UNCHANGED <<data, attempts>>
         [] OTHER ->
               /\ data' = Merge(data, more_result.items, ExistingQs(data))
               /\ attempts' = attempts + 1
               /\ qpc' = IF LoopGoesOn(data', attempts + 1) THEN "quiz_loop" ELSE "quiz_fallback"
    /\ UNCHANGED <<n_initial, n_merged, pool, fi, repairs, more_calls, qout,
                   entry, article, analysis, related_topics, quiz_items,
                   model_calls, repair_prompts>>

\* llm.py:318-334
Q_FallbackStart ==
    /\ qpc = "quiz_fallback"
    /\ n_merged' = Len(data)
    /\ IF Len(data) < Target
       THEN \E p \in Perms(LlmPool(TextToSend(article))) :
               /\ pool' = p
               /\ fi' = 0
               /\ qpc' = IF 0 < Len(p) THEN "quiz_fill" ELSE "quiz_return"
       ELSE qpc' = "quiz_return" /\ UNCHANGED <<pool, fi>>
    /\ UNCHANGED <<data, attempts, n_initial, repairs, more_calls, qout,
                   entry, article, analysis, related_topics, quiz_items,
                   more_result, model_calls, repair_prompts>>

\* llm.py:335-350, one round of the filler loop
Q_Fill ==
    /\ qpc = "quiz_fill"
    /\ Len(data) < Target /\ fi < Len(pool)
    /\ \E S \in DistractorPicks(Without(pool, pool[fi + 1])) :
          data' = Append(data, Filler(pool[fi + 1],
                                      OptionsBag(pool[fi + 1], Without(pool, pool[fi + 1]), S)))
    /\ fi' = fi + 1
    /\ qpc' = IF Len(data') < Target /\ fi' < Len(pool) THEN "quiz_fill" ELSE "quiz_return"
    /\ UNCHANGED <<attempts, n_initial, n_merged, pool, repairs, more_calls, qout,
                   entry, article, analysis, related_topics, quiz_items,
                   more_result, model_calls, repair_prompts>>

\* llm.py:354
Q_ReturnWrong ==
    /\ qpc = "quiz_return"
    /\ quiz_items' = data
    /\ IF entry = "direct"
       THEN qpc' = "done" /\ qout' = "returned"
       ELSE qpc' = "related" /\ UNCHANGED qout
    /\ UNCHANGED <<data, attempts, n_initial, n_merged, pool, fi, repairs, more_calls,
                   entry, article, analysis, related_topics,
                   more_result, model_calls, repair_prompts>>

Q_Return ==
    /\ qpc = "quiz_return"
    /\ quiz_items' = SubSeq(data, 1, Min(Len(data), Target))
    /\ IF entry = "direct"
       THEN qpc' = "done" /\ qout' = "returned"
       ELSE qpc' = "related" /\ UNCHANGED qout
    /\ UNCHANGED <<data, attempts, n_initial, n_merged, pool, fi, repairs, more_calls,
                   entry, article, analysis, related_topics,
                   more_result, model_calls, repair_prompts>>

\* main.py:65-72, generate_related_topics (llm.py:357-375)
Q_Related ==
    /\ qpc = "related"
    /\ IF ~InputOk(article)
       THEN Fail("ValueError") /\ UNCHANGED <<related_topics, model_calls>>
       ELSE /\ model_calls' = model_calls + 1
            /\ \E r \in RelatedOutcomes :
                  IF r.ok
                  THEN /\ related_topics' = r.value
                       /\ IF entry = "direct_related"
                          THEN qpc' = "done" /\ qout' = "returned"
                          ELSE /\ qpc' = IF Len(quiz_items) < Target THEN "ep_pool" ELSE "store"
                               /\ UNCHANGED qout
                  ELSE Fail("ValueError") /\ UNCHANGED related_topics
    /\ UNCHANGED <<data, attempts, n_initial, n_merged, pool, fi, repairs, more_calls,
                   entry, article, analysis, quiz_items, more_result, repair_prompts>>

\* main.py:73-91
E_Pool ==
    /\ qpc = "ep_pool"
    /\ IF EndpointPoolRaises(analysis)
       THEN qpc' = "store" /\ UNCHANGED <<pool, fi>>
       ELSE \E p \in Perms(EndpointPool(analysis, related_topics)) :
               /\ pool' = p
               /\ fi' = 0
               /\ qpc' = IF 0 < Len(p) THEN "ep_fill" ELSE "store"
    /\ UNCHANGED <<data, attempts, n_initial, n_merged, repairs, more_calls, qout,
                   entry, article, analysis, related_topics, quiz_items,
                   more_result, model_calls, repair_prompts>>

\* main.py:91-108, one round of the endpoint's filler loop
E_Fill ==
    /\ qpc = "ep_fill"
    /\ Len(quiz_items) < Target /\ fi < Len(pool)
    /\ IF 1 + Min(3, Len(Without(pool, pool[fi + 1]))) < 4
       THEN UNCHANGED quiz_items
       ELSE \E S \in DistractorPicks(Without(pool, pool[fi + 1])) :
               quiz_items' = Append(quiz_items,
                                    Filler(pool[fi + 1],
                                           OptionsBag(pool[fi + 1], Without(pool, pool[fi + 1]), S)))
    /\ fi' = fi + 1
    /\ qpc' = IF Len(quiz_items') < Target /\ fi' < Len(pool) THEN "ep_fill" ELSE "store"
    /\ UNCHANGED <<data, attempts, n_initial, n_merged, pool, repairs, more_calls, qout,
                   entry, article, analysis, related_topics,
                   more_result, model_calls, repair_prompts>>

\* main.py:113-121; crud.create_quiz reads analysis.get(...) (crud.py:39-42),
\* which raises for an analysis that is not an object
Q_Store ==
    /\ qpc = "store"
    /\ IF analysis.is_dict
       THEN qpc' = "done" /\ qout' = "stored"
       ELSE Fail("AttributeError")
    /\ UNCHANGED <<data, attempts, n_initial, n_merged, pool, fi, repairs, more_calls,
                   entry, article, analysis, related_topics, quiz_items,
                   more_result, model_calls, repair_prompts>>

NextQuiz ==
    \/ Q_Analyze
    \/ Q_AnalyzeRepair
    \/ Q_Start
    \/ Q_Initial
    \/ Q_Repair
    \/ Q_More
    \/ Q_Merge
    \/ Q_FallbackStart
    \/ Q_Fill
    \/ Q_Return
    \/ Q_Related
    \/ E_Pool
    \/ E_Fill
    \/ Q_Store

Init ==
    /\ InitQuiz
    /\ IdleInvoker
    /\ IdleParser
    /\ IdleServer

Spec == Init /\ [][NextQuiz /\ UNCHANGED <<ivars, pvars, svars>>]_vars

-----------------------------------------------------------------------------
(* Claims about the question list, checked under Spec                       *)

\* the item carries a question string
HasText(it) == it.question # Absent
\* no two entries of d carry the same question string
NoDupText(d) ==
    \A i, j \in DOMAIN d :
        (i < j /\ HasText(d[i]) /\ HasText(d[j])) => d[i].question # d[j].question
\* the entry at position i of d carries a question string that no entry
\* before it carries
NewText(d, i) == HasText(d[i]) => \A j \in 1..(i - 1) : d[j].question # d[i].question
\* a round of the completion loop that got a parsed value and went on to
\* line 314 (a merge, or a non-list value that is ignored)
MergeRound == qpc = "quiz_merge" /\ attempts' = attempts + 1

\* C9: a merge of a supplemental list only appends to the question list, and
\* every item it appends has a question text different from the question text
\* of every item before it in the resulting list (the old items and the items
\* appended earlier in the same merge); so a list without duplicate question
\* text has none after the merge.
C9_MergeAppendsOnlyNewText ==
    [][MergeRound =>
          /\ Len(data') >= Len(data)
          /\ SubSeq(data', 1, Len(data)) = data
          /\ \A i \in (Len(data) + 1)..Len(data') : NewText(data', i)
          /\ (NoDupText(data) => NoDupText(data'))]_vars

\* C9 witness: a merge has appended the new question n1 after the initial
\* questions and left out the repeated q1, within the same round
C9_Witness ==
    /\ attempts = 1
    /\ more_calls = 1
    /\ n_initial = 8
    /\ Len(data) = 9
    /\ data[1].question = "q1"
    /\ data[9].question = "n1"
    /\ NoDupText(data)

\* the request has produced its final question list
Finished == qpc = "done" /\ qout \in {"stored", "returned"}

\* C10 as stated: no two entries of the final question list have the same
\* question string.
C10_Original == Finished => NoDupText(quiz_items)

\* C10 amended: in the final question list every entry that was appended by
\* a supplemental round has a question text different from that of every
\* entry before it; entries of the initial completion and filler entries are
\* not compared with anything.
C10_MergedEntriesAreNew ==
    Finished =>
        \A i \in (n_initial + 1)..Min(n_merged, Len(quiz_items)) : NewText(quiz_items, i)

\* C10 witness: a stored list that holds initial questions, a question merged
\* by a supplemental round, and fillers of both fallbacks sharing one text
C10_Witness ==
    /\ qout = "stored"
    /\ n_initial = 5
    /\ n_merged = 6
    /\ Len(quiz_items) = Target
    /\ quiz_items[6].question = "n1"
    /\ quiz_items[7].kind = "filler"
    /\ quiz_items[Target].kind = "filler"
    /\ quiz_items[7].question = quiz_items[Target].question

\* the first Target entries of d (all of d when it is shorter)
FirstTen(d) == SubSeq(d, 1, IF Len(d) < Target THEN Len(d) ELSE Target)

\* C11: the list returned by generate_quiz never has more than 10 entries:
\* it is the first 10 entries, in order, of the merged and filled list; the
\* endpoint's fallback only appends to it and never takes it beyond 10.
C11_AtMostTen ==
    /\ Len(quiz_items) <= Target
    /\ (qpc \in {"related", "ep_pool"} \/ qout = "returned") => quiz_items = FirstTen(data)
    /\ qpc \in {"ep_fill", "store"} =>
          /\ Len(quiz_items) >= Len(FirstTen(data))
          /\ SubSeq(quiz_items, 1, Len(FirstTen(data))) = FirstTen(data)

\* C11 witness: a merge took a list of 9 to 11 entries and generate_quiz
\* returned the first 10 of them
C11_Witness ==
    /\ qout = "returned"
    /\ n_initial = 9
    /\ Len(data) = 11
    /\ Len(quiz_items) = Target
    /\ quiz_items[Target].question = "n1"
    /\ data[11].question = "n2"

\* every entry of d is a question object that carries a question string
AllQuestions(d) == \A i \in DOMAIN d : d[i].kind = "dict" /\ HasText(d[i])

\* the first supplemental completion is about to be merged; the initial
\* completion parsed (no repair) to k < 10 questions with distinct texts,
\* and this completion parses to 10 - k questions with texts distinct from
\* each other and from the first k
GoodFirstRound ==
    /\ qpc = "quiz_merge"
    /\ more_calls = 1
    /\ repairs = 0
    /\ n_initial = Len(data)
    /\ Len(data) < Target
    /\ AllQuestions(data)
    /\ more_result.kind = "list"
    /\ Len(more_result.items) = Target - Len(data)
    /\ AllQuestions(more_result.items)
    /\ NoDupText(data \o more_result.items)

\* generate_quiz is past a completion loop that filled the list to 10 in its
\* first round, the initial completion having parsed without repair
FilledInOneRound ==
    /\ qpc \notin {"quiz_loop", "quiz_merge"}
    /\ more_calls = 1
    /\ attempts = 1
    /\ repairs = 0
    /\ n_initial < Target
    /\ Len(data) = Target
    /\ AllQuestions(data)

\* C12: when the initial completion parses to k < 10 questions with distinct
\* texts and the first supplemental completion to 10 - k further distinct
\* ones, the merge yields the k initial entries followed by the new ones and
\* ends the loop after that one request; generate_quiz then returns exactly
\* these 10 entries, without error, repair request or filler item.
C12_EndToEnd ==
    /\ [][GoodFirstRound =>
             /\ data' = data \o more_result.items
             /\ attempts' = 1
             /\ qpc' = "quiz_fallback"]_vars
    /\ [](FilledInOneRound =>
             /\ qpc \in {"quiz_fallback", "quiz_return", "related", "store", "done"}
             /\ qout \notin {"ValueError", "raised", "RepairFailed"}
             /\ repair_prompts \in {<<>>, <<"REPAIR_ANALYSIS_PROMPT">>}
             /\ qpc \in {"related", "store", "done"} => quiz_items = data)

\* C12 witness: 8 initial questions, one supplemental request that brought
\* n1 and n2, and the 10 entries returned after two model requests
C12_Witness ==
    /\ entry = "direct"
    /\ qout = "returned"
    /\ n_initial = 8
    /\ more_calls = 1
    /\ model_calls = 2
    /\ repairs = 0
    /\ Len(quiz_items) = Target
    /\ quiz_items[9].question = "n1"
    /\ quiz_items[Target].question = "n2"
    /\ quiz_items = data

\* C13: once the initial completion has been parsed into a list and a
\* supplemental round has been started, generate_quiz does not fail: it is
\* still running or it has returned a list, whatever the round came back with.
C13_UnderfillNeverFails ==
    (entry = "direct" /\ more_calls > 0) => qout \in {"none", "returned"}

\* the number of distinct candidates in the pool
DistinctInPool == Cardinality({pool[i] : i \in DOMAIN pool})

\* C14: in both fallbacks a pool with fewer than 4 distinct usable strings
\* yields no filler item: the list of generate_quiz stays as the completion
\* loop left it, and the list of the endpoint stays as generate_quiz
\* returned it.
C14_SmallPoolNoFiller ==
    /\ (qpc \in {"quiz_fill", "quiz_return"} /\ DistinctInPool < 4) => Len(data) = n_merged
    /\ (qpc \in {"ep_fill", "store"} /\ DistinctInPool < 4) => quiz_items = FirstTen(data)

\* the filler entries of d, as the set of their positions
FillerPositions(d) == {i \in DOMAIN d : d[i].kind = "filler"}
\* the options of filler f are 4 different strings, its answer among them
FourDistinctOptions(f) ==
    /\ Cardinality(DOMAIN f.options) = 4
    /\ \A e \in DOMAIN f.options : f.options[e] = 1
    /\ f.answer \in DOMAIN f.options
\* every filler of d has 4 distinct options and no two have the same answer
WellFormedFillers(d) ==
    /\ \A i \in FillerPositions(d) : FourDistinctOptions(d[i])
    /\ \A i, j \in FillerPositions(d) : i # j => d[i].answer # d[j].answer

\* C15: every filler item, of generate_quiz and of the endpoint, has exactly
\* 4 pairwise distinct options that include its answer, and the fillers of a
\* request have pairwise different answers.
C15_FillersWellFormed == WellFormedFillers(data) /\ WellFormedFillers(quiz_items)

\* the text cut to its first 8000 characters and trimmed has fewer than 100
\* characters (empty and blank texts included)
TooShort(t) == LenT(StripT(TruncateT(t, 8000))) < 100

\* C16: when analyze_article, generate_quiz or generate_related_topics is
\* entered with a text that is too short, the operation fails in that step
\* and sends no request of any kind to the model.
C16_TooShortFailsLocally ==
    [][(qpc \in {"analyze", "quiz_start", "related"} /\ TooShort(article)) =>
          /\ qpc' = "done"
          /\ qout' \in {"ValueError", "http500"}
          /\ model_calls' = model_calls
          /\ more_calls' = more_calls
          /\ repair_prompts' = repair_prompts]_vars

\* C16 witness: analyze_article has rejected a text of more than 8000
\* characters whose first 8000 hold 50 characters besides blanks, without
\* any model request
C16_Witness ==
    /\ entry = "direct_analyze"
    /\ qpc = "done"
    /\ qout = "ValueError"
    /\ model_calls = 0
    /\ LenT(article) > 8000
    /\ LenT(StripT(TruncateT(article, 8000))) = 50

\* how many repair requests were made with prompt p
RepairsWith(p) == Cardinality({i \in DOMAIN repair_prompts : repair_prompts[i] = p})

\* what a repair step of operation pc with prompt p does: one repair request
\* with p, after which the operation either goes on with the repaired value
\* or fails, having made no supplemental request
RepairStep(pc, p) ==
    qpc = pc =>
        /\ repair_prompts' = Append(repair_prompts, p)
        /\ model_calls' = model_calls + 1
        /\ qpc' \notin {"analyze_repair", "quiz_repair"}
        /\ qpc' = "done" =>
              /\ qout' \in {"RepairFailed", "ValueError", "http500", "returned"}
              /\ more_calls' = 0

\* C17: when the initial completion of analyze_article or generate_quiz does
\* not parse, one repair request is made with the repair prompt of that
\* operation; the operation then goes on with the repaired value or fails,
\* and in no case is a second repair request made for the operation or a
\* supplemental request made after a failed repair.
C17_RepairProtocol ==
    /\ [][RepairStep("analyze_repair", "REPAIR_ANALYSIS_PROMPT")
            /\ RepairStep("quiz_repair", "REPAIR_QUIZ_PROMPT")]_vars
    /\ [](/\ RepairsWith("REPAIR_ANALYSIS_PROMPT") <= 1
          /\ RepairsWith("REPAIR_QUIZ_PROMPT") <= 1
          /\ qout = "RepairFailed" => (more_calls = 0 /\ repair_prompts # <<>>))

\* C17 witness: generate_quiz has failed after its initial request and one
\* repair request with the quiz prompt
C17_Witness ==
    /\ entry = "direct"
    /\ qpc = "done"
    /\ qout = "RepairFailed"
    /\ repair_prompts = <<"REPAIR_QUIZ_PROMPT">>
    /\ model_calls = 2
    /\ more_calls = 0

\* C18: a value that analyze_article has returned is an object (mapping); a
\* completion that parses to a value of another shape is never returned.
C18_AnalysisIsObject == analysis # NoAnalysis => analysis.is_dict

-----------------------------------------------------------------------------
(* The model calls of the pipeline, one call at a time: qpc is the place   *)
(* of the call.  The repair calls are made by _repair_with_model, the      *)
(* others by _invoke_chain_with_retries with its default max_retries.      *)

\* llm.py:227, 253, 287, 369
RetryingSites == {"analyze", "quiz_initial", "quiz_loop", "related"}
\* llm.py:235, 262
RepairSites == {"analyze_repair", "quiz_repair"}
\* llm.py:36, the default of max_retries
DefaultRetries == 3

\* llm.py:190, chain.invoke returns
DirectInvokeReturns ==
    /\ qpc \in RepairSites
    /\ ipc = "invoking"
    /\ chain_calls' = chain_calls + 1
    /\ ipc' = "returned"
    /\ iout' = [kind |-> "value", call |-> chain_calls + 1]
    /\ UNCHANGED <<max_retries, attempt, last_exc, slept, delay>>

\* llm.py:190, chain.invoke raises e with str(e) = msg; nothing catches it
\* inside _repair_with_model
DirectInvokeRaises(msg) ==
    /\ qpc \in RepairSites
    /\ ipc = "invoking"
    /\ chain_calls' = chain_calls + 1
    /\ last_exc' = [msg |-> msg, id |-> chain_calls + 1]
    /\ ipc' = "raised"
    /\ iout' = [kind |-> "error", exc |-> [msg |-> msg, id |-> chain_calls + 1]]
    /\ UNCHANGED <<max_retries, attempt, slept, delay>>

InitCalls ==
    /\ InitInvoker
    /\ max_retries = DefaultRetries
    /\ ipc = "invoking"
    /\ IdleParser
    /\ NoRequest
    /\ qpc \in RetryingSites \cup RepairSites
    /\ IdleServer

NextCalls ==
    \/ qpc \in RetryingSites /\ InvokeReturns
    \/ qpc \in RetryingSites /\ \E msg \in Messages : InvokeRaises(msg)
    \/ qpc \in RetryingSites /\ SleepReturns
    \/ DirectInvokeReturns
    \/ \E msg \in Messages : DirectInvokeRaises(msg)

SpecCalls == InitCalls /\ [][NextCalls /\ UNCHANGED <<pvars, qvars, svars>>]_vars

\* C19: at every place of the pipeline a rate-limited error leaves the model
\* call only when the attempt budget is used up: it is never surfaced on an
\* earlier occurrence.
C19_RateLimitedIsRetried ==
    (ipc = "raised" /\ HasMarkerAsCoded(last_exc.msg)) => chain_calls = max_retries

\* C20: in _invoke_chain_with_retries every wait is followed by another
\* chain.invoke, so that a run with max_retries = n makes at most n - 1 waits.
C20_WaitThenInvoke ==
    /\ [][ipc = "sleeping" => ipc' = "invoking"]_vars
    /\ [](slept <= max_retries - 1)

\* The retry hints of the error messages, read off the messages by hand:
\* which hint a message tail carries and the seconds it names.
HintTails == {
    [tail |-> <<"."," ","P","l","e","a","s","e"," ","r","e","t","r","y"," ","i","n"," ","5","6",".","7","3","s">>,
     hint |-> "retry in", num |-> 5673, den |-> 100],
    [tail |-> <<" ","r","e","t","r","y"," ","i","n"," ","3","0","0","s">>,
     hint |-> "retry in", num |-> 300, den |-> 1],
    [tail |-> <<" ","r","e","t","r","y"," ","i","n"," ","0","s">>,
     hint |-> "retry in", num |-> 0, den |-> 1],
    [tail |-> <<" ","'","r","e","t","r","y","D","e","l","a","y","'",":"," ","'","7","s","'">>,
     hint |-> "retryDelay", num |-> 7, den |-> 1],
    [tail |-> <<" ","r","e","t","r","y","D","e","l","a","y","=","1","3","0","s">>,
     hint |-> "retryDelay", num |-> 130, den |-> 1],
    [tail |-> <<" ","r","e","t","r","y"," ","i","n"," ","3","s",","," ","r","e","t","r","y","D","e","l","a","y",":"," ","5","0","0","s">>,
     hint |-> "both", num |-> 3, den |-> 1],
    [tail |-> <<" ","r","e","t","r","y"," ","i","n"," ","5",".","s"," ","r","e","t","r","y","D","e","l","a","y"," ","8","s">>,
     hint |-> "retryDelay", num |-> 8, den |-> 1] }

HintsOf(msg) == {h \in HintTails : EndsWith(msg, h.tail)}

\* the wait the priority rule asks for, as a set of fractions (one element)
ExpectedWait(msg, k) ==
    LET before == IF HintsOf(msg) = {}
                  THEN {[num |-> 5 * Pow(2, k), den |-> 1]}
                  ELSE {[num |-> h.num, den |-> h.den] : h \in HintsOf(msg)}
    IN  {IF b.num > 120 * b.den THEN [num |-> 120, den |-> 1] ELSE b : b \in before}

SameFraction(a, b) == a.num * b.den = b.num * a.den

\* C21: while the invoker waits after a rate-limited error on attempt index
\* k, the wait is the seconds of the "retry in" hint of the message, else
\* those of its retryDelay hint, else 5 * 2^k, and never more than 120.
C21_BackoffPriority ==
    ipc = "sleeping" =>
        \E w \in ExpectedWait(last_exc.msg, attempt) : SameFraction(delay, w)

\* a wait for a message with both hints, after two earlier waits
C21_Witness ==
    /\ ipc = "sleeping"
    /\ attempt = 2
    /\ \E h \in HintsOf(last_exc.msg) : h.hint = "both"
    /\ SameFraction(delay, [num |-> 3, den |-> 1])

-----------------------------------------------------------------------------
(* Further claims about _safe_json_parse, checked under SpecParse          *)

\* the candidate of the path the parser took: the balanced slice, or the
\* remaining text with the synthesized closers
PathCandidate ==
    IF end # 0 THEN Strip(Slice(text, start, end))
    ELSE Slice(text, start, Len(text)) \o Closers(stack)

\* C22: on every recovery path, the one without a balanced end included, the
\* parser does not fail for a candidate that parses once the commas before
\* closing braces and brackets are removed.
C22_CommaRepairOnEveryPath ==
    (ppc = "done" /\ start # 0 /\ pout.kind = "error") =>
        ~JsonLoads(RemoveTrailingCommas(PathCandidate, 1)).ok

\* the JSON objects and arrays among the valid documents
Containers == {b \in ValidBodies : b[1] \in {"{", "["}}

\* the text under scan begins, at start, with the container b and goes on
\* after it
ContainerThenNoise(b) ==
    /\ start # 0
    /\ start + Len(b) <= Len(text)
    /\ Slice(text, start, start + Len(b) - 1) = b

ScanStopped == ppc \in {"balanced", "unbalanced", "done"}

\* C23: during the scan a character met inside a string literal never
\* changes the depth stack and the character after an escaping backslash
\* never ends the string; so when the text under scan is a JSON object or
\* array followed by noise, the balanced end is the last character of the
\* container.
C23_BalancedScan ==
    /\ [][(ppc = "scan" /\ in_string) => stack' = stack]_vars
    /\ [][(ppc = "scan" /\ escape) => in_string' = in_string]_vars
    /\ [](ScanStopped =>
            \A b \in Containers :
                ContainerThenNoise(b) => end = start + Len(b) - 1)

\* the scan has ended on the array ["a]", "{b"], which is followed by noise
C23_Witness ==
    /\ ppc = "balanced"
    /\ ContainerThenNoise(<<"[","\"","a","]","\"",","," ","\"","{","b","\"","]">>)
    /\ end = start + 11
    /\ Len(text) > end

\* completions cut off right after a complete element value, each with the
\* JSON text of the container that holds the elements completed so far
CutsAfterValue == {
    [text |-> <<"{","\"","t","\"",":"," ","\"","T","r","\"">>,
     want |-> <<"{","\"","t","\"",":"," ","\"","T","r","\"","}">>],
    [text |-> <<"[","{","\"","q","\"",":"," ","\"","a","\"">>,
     want |-> <<"[","{","\"","q","\"",":"," ","\"","a","\"","}","]">>],
    [text |-> <<"[","{","\"","q","\"",":"," ","\"","a","\"","}">>,
     want |-> <<"[","{","\"","q","\"",":"," ","\"","a","\"","}","]">>],
    [text |-> <<"[","{","\"","q","\"",":"," ","\"","a","\"","}",","," ","{","\"","q","\"",":"," ","\"","b","\"">>,
     want |-> <<"[","{","\"","q","\"",":"," ","\"","a","\"","}",","," ","{","\"","q","\"",":"," ","\"","b","\"","}","]">>],
    [text |-> <<"[","{","\"","q","\"",":"," ","\"","a","\"","}",","," ","{","\"","q","\"",":"," ","\"","b","\"","}">>,
     want |-> <<"[","{","\"","q","\"",":"," ","\"","a","\"","}",","," ","{","\"","q","\"",":"," ","\"","b","\"","}","]">>],
    [text |-> <<"{","\"","a","\"",":"," ","[","1">>,
     want |-> <<"{","\"","a","\"",":"," ","[","1","]","}">>],
    [text |-> <<"{","\"","a","\"",":"," ","[","1",","," ","2">>,
     want |-> <<"{","\"","a","\"",":"," ","[","1",","," ","2","]","}">>],
    [text |-> <<"{","\"","a","\"",":"," ","[","1",","," ","2","]">>,
     want |-> <<"{","\"","a","\"",":"," ","[","1",","," ","2","]","}">>],
    [text |-> <<"{","\"","a","\"",":"," ","[","1",","," ","2","]",","," ","\"","b","\"",":"," ","\"","x","]","\"">>,
     want |-> <<"{","\"","a","\"",":"," ","[","1",","," ","2","]",","," ","\"","b","\"",":"," ","\"","x","]","\"","}">>],
    [text |-> <<"[","\"","a","\\","\"","b","\"">>,
     want |-> <<"[","\"","a","\\","\"","b","\"","]">>],
    [text |-> <<"[","\"","a","\\","\"","b","\"",","," ","7">>,
     want |-> <<"[","\"","a","\\","\"","b","\"",","," ","7","]">>] }

\* C24: when the text under scan is a JSON container cut off right after a
\* complete element value, the scan ends outside a string with containers
\* open, and the parser returns, through the synthesized closers (one per
\* open container, innermost first), the container of the elements
\* completed so far.
C24_TruncationRepair ==
    ppc = "done" =>
        \A c \in CutsAfterValue :
            (start = 1 /\ text = c.text) =>
                /\ end = 0
                /\ ~in_string
                /\ pout.kind = "value"
                /\ pout.via = "closers"
                /\ pout.val = JsonLoads(c.want).val

\* the object {"a": [1, 2], "b": "x]"} cut off after the 1: an array inside
\* an object is open, and the value is {"a": [1]}
C24_Witness ==
    /\ ppc = "done"
    /\ raw = <<"{","\"","a","\"",":"," ","[","1">>
    /\ stack = <<"{", "[">>
    /\ pout.kind = "value"
    /\ pout.val = ObjV([k \in {<<"a">>} |-> ArrV(<<NumV(1)>>)])

-----------------------------------------------------------------------------
(* generate_quiz up to the end of its completion loop, called directly and *)
(* scheduled fairly: the one thread that runs the call takes every step    *)
(* it can take.                                                            *)

InitLoop == Init /\ entry = "direct"

NextLoop ==
    \/ Q_Start
    \/ Q_Initial
    \/ Q_Repair
    \/ Q_More
    \/ Q_Merge

SpecLoop ==
    /\ InitLoop
    /\ [][NextLoop /\ UNCHANGED <<ivars, pvars, svars>>]_vars
    /\ WF_vars(NextLoop /\ UNCHANGED <<ivars, pvars, svars>>)

InLoop == qpc \in {"quiz_loop", "quiz_merge"}

\* a supplemental request is issued in this step
IssuesRequest == more_calls' = more_calls + 1

\* C25: a call of generate_quiz issues at most 3 supplemental requests, none
\* when the initial list has 10 entries or more, none once the list has
\* reached 10 entries, and its completion loop always comes to an end.
C25_LoopBudget ==
    /\ [](more_calls <= 3)
    /\ []((n_initial >= 10) => (more_calls = 0))
    /\ [][IssuesRequest => Len(data) < 10]_vars
    /\ InLoop ~> ~InLoop

\* the loop has ended after three requests
C25_Witness ==
    /\ more_calls = 3
    /\ qpc = "quiz_fallback"
    /\ Len(data) < 10

\* the supplemental call of this round has come back without content
EmptyRound == qpc = "quiz_merge" /\ more_result.kind = "empty"

\* C26: a supplemental call that yields no content ends the completion loop
\* at once: the round leaves the question list as it is, raises nothing and
\* hands over to the fallback synthesis, and no supplemental request is
\* issued after the loop has been left, whatever is left of the budget.
C26_EmptyEndsLoop ==
    /\ [][EmptyRound =>
            /\ data' = data
            /\ qout' = qout
            /\ qpc' = "quiz_fallback"]_vars
    /\ [][(~InLoop \/ EmptyRound) => more_calls' = more_calls]_vars

\* the first supplemental call of a list of 5 has come back empty
C26_Witness ==
    /\ EmptyRound
    /\ attempts = 0
    /\ more_calls = 1
    /\ Len(data) = 5

-----------------------------------------------------------------------------
(* _safe_json_parse of tmp_test_parser.py, as a function of its text       *)

\* tmp_test_parser.py:40-69, the scan loop from position i on
RECURSIVE TmpScan(_, _, _, _, _, _)
TmpScan(s, i, st, ins, sc, esc) ==
    IF i > Len(s) THEN [end |-> 0, stack |-> st]
    ELSE IF esc THEN TmpScan(s, i + 1, st, ins, sc, FALSE)
    ELSE IF s[i] = "\\" /\ ins THEN TmpScan(s, i + 1, st, ins, sc, TRUE)
    ELSE IF s[i] \in {"\"", "'"}
         THEN IF ~ins THEN TmpScan(s, i + 1, st, TRUE, s[i], FALSE)
              ELSE TmpScan(s, i + 1, st, s[i] # sc, sc, FALSE)
    ELSE IF ins THEN TmpScan(s, i + 1, st, ins, sc, FALSE)
    ELSE IF s[i] \in {"{", "["} THEN TmpScan(s, i + 1, Append(st, s[i]), ins, sc, FALSE)
    ELSE IF s[i] \in {"}", "]"} /\ st # <<>>
         THEN IF Len(st) = 1 THEN [end |-> i, stack |-> <<>>]
              ELSE TmpScan(s, i + 1, SubSeq(st, 1, Len(st) - 1), ins, sc, FALSE)
    ELSE TmpScan(s, i + 1, st, ins, sc, FALSE)

\* tmp_test_parser.py:79-88, the slice up to the last closer
TmpLastCloser(t, st, last) ==
    IF last > 0 /\ last > st
    THEN IF JsonLoads(Slice(t, st, last)).ok
         THEN PValue(JsonLoads(Slice(t, st, last)).val, "last_closer")
         ELSE PError("after_attempts")
    ELSE PError("unbalanced")

TmpMax(a, b) == IF a > b THEN a ELSE b

\* tmp_test_parser.py:71-88
TmpUnbalanced(t, st, c1) ==
    IF JsonLoads(c1).ok THEN PValue(JsonLoads(c1).val, "closers")
    ELSE TmpLastCloser(t, st, TmpMax(RFindChar(t, "}"), RFindChar(t, "]")))

\* tmp_test_parser.py:90-98
TmpBalanced(candidate) ==
    IF JsonLoads(candidate).ok THEN PValue(JsonLoads(candidate).val, "balanced")
    ELSE IF JsonLoads(RemoveTrailingCommas(candidate, 1)).ok
         THEN PValue(JsonLoads(RemoveTrailingCommas(candidate, 1)).val, "cleaned")
    ELSE PError("candidate")

TmpAfterScan(t, st, sc) ==
    IF sc.end = 0
    THEN TmpUnbalanced(t, st, Slice(t, st, Len(t)) \o Closers(sc.stack))
    ELSE TmpBalanced(Strip(Slice(t, st, sc.end)))

\* tmp_test_parser.py:17-38: the markers are cut right after the cleaning,
\* with no json.loads of the cleaned text before
TmpAfterClean(t, st) ==
    IF st = 0
    THEN IF JsonLoads(t).ok THEN PValue(JsonLoads(t).val, "no_container")
         ELSE PError("no_container")
    ELSE TmpAfterScan(t, st, TmpScan(t, st, <<>>, FALSE, NoChar, FALSE))

TmpMarkers(t) == TmpAfterClean(StripMarkers(t, 1), FindStart(StripMarkers(t, 1)))

\* tmp_test_parser.py:6-98
TmpSafeJsonParse(s) ==
    IF Strip(s) = <<>> THEN PError("empty")
    ELSE IF StripFences(s) = <<>> THEN PError("empty_after_cleaning")
    ELSE TmpMarkers(StripFences(s))

\* C27: the parser of app/llm.py and the parser of tmp_test_parser.py give,
\* for every text, the same value, or both fail.
C27_SameAlgorithm ==
    ppc = "done" =>
        /\ pout.kind = TmpSafeJsonParse(raw).kind
        /\ pout.val = TmpSafeJsonParse(raw).val

\* the scan is about to examine the character at pos
Examines == ppc = "scan" /\ pos <= Len(text)

\* C28: from the step after the start character on, the depth stack is not
\* empty whenever the scan examines a character, so that a closing brace or
\* bracket is never met outside a string with an empty stack.
C28_StackNonEmpty ==
    /\ (Examines /\ pos > start) => stack # <<>>
    /\ (Examines /\ ~in_string /\ ~escape /\ text[pos] \in {"}", "]"}) => stack # <<>>

\* the scan examines, past the start and outside a string, the closer that
\* empties the stack
C28_Witness ==
    /\ Examines
    /\ pos > start + 1
    /\ ~in_string
    /\ ~escape
    /\ text[pos] \in {"}", "]"}
    /\ Len(stack) = 1

\* the parser is done and its scan found no balanced end
NoBalancedEnd == ppc = "done" /\ start # 0 /\ end = 0

\* the closing braces and brackets of the text after the start
ClosersAfterStart == {p \in (start + 1)..Len(text) : text[p] \in {"}", "]"}}

\* C29: when the scan finds no balanced end, a value the parser returns is
\* the parse of the remaining text with the synthesized closers; the slice
\* from the start to a closing brace or bracket, the rightmost one included,
\* never parses.
C29_SecondRepairNeverParses ==
    NoBalancedEnd =>
        /\ \A p \in ClosersAfterStart : ~JsonLoads(Slice(text, start, p)).ok
        /\ pout.kind = "value" =>
              /\ pout.via = "closers"
              /\ pout.val = JsonLoads(Slice(text, start, Len(text)) \o Closers(stack)).val

\* the closers did not help, the slice up to the last closer was tried and
\* did not parse either
C29_Witness ==
    /\ NoBalancedEnd
    /\ ClosersAfterStart # {}
    /\ pout.kind = "error"
    /\ pout.via = "after_attempts"

-----------------------------------------------------------------------------
(* Concurrent requests at POST /api/quizzes/generate          main.py:37   *)
(* The handler is a plain def: the server runs each request on a thread of *)
(* its pool, each with its own database session.                           *)

MaxRequests == 3
Requests == 1..MaxRequests
URLs == {"u1", "u2"}

NoResult == [kind |-> "none", id |-> 0]

\* a request that has just entered the handler
Arrived(u) == [pc |-> "check", url |-> u, fetched |-> 0, generated |-> 0, result |-> NoResult]

\* the rows of the table with url u (crud.py:11, the filter of the query)
Rows(u) == {i \in DOMAIN store : store[i].url = u}

\* the handler of request r returns or raises
Ends(r, kind, id) ==
    requests' = [requests EXCEPT ![r].pc = "done", ![r].result = [kind |-> kind, id |-> id]]

\* main.py:42-45 and crud.py:9-11, the cache check
S_Cache(r) ==
    /\ requests[r].pc = "check"
    /\ IF Rows(requests[r].url) # {}
       THEN Ends(r, "cached", store[CHOOSE i \in Rows(requests[r].url) :
                                        \A j \in Rows(requests[r].url) : i <= j].id)
       ELSE requests' = [requests EXCEPT ![r].pc = "fetch"]
    /\ UNCHANGED store

\* main.py:47-58, scraping.fetch_and_extract
S_Fetch(r) ==
    /\ requests[r].pc = "fetch"
    /\ \/ requests' = [requests EXCEPT ![r].pc = "generate",
                                       ![r].fetched = requests[r].fetched + 1]
       \/ requests' = [requests EXCEPT ![r].pc = "done",
                                       ![r].fetched = requests[r].fetched + 1,
                                       ![r].result = [kind |-> "http400", id |-> 0]]
    /\ UNCHANGED store

\* main.py:60-110, the model calls and the fallback
S_Generate(r) ==
    /\ requests[r].pc = "generate"
    /\ \/ requests' = [requests EXCEPT ![r].pc = "store",
                                       ![r].generated = requests[r].generated + 1]
       \/ requests' = [requests EXCEPT ![r].pc = "done",
                                       ![r].generated = requests[r].generated + 1,
                                       ![r].result = [kind |-> "http500", id |-> 0]]
    /\ UNCHANGED store

\* main.py:112-121 and crud.py:28-50, create_quiz; url is unique
\* (models.py:13), so the commit of a second row for a URL raises
S_StoreWrong(r) ==
    /\ requests[r].pc = "store"
    /\ \/ /\ store' = Append(store, [id |-> Len(store) + 1, url |-> requests[r].url])
          /\ Ends(r, "created", Len(store) + 1)
       \/ /\ Ends(r, "AttributeError", 0)
          /\ UNCHANGED store

S_Store(r) ==
    /\ requests[r].pc = "store"
    /\ \/ /\ Rows(requests[r].url) = {}
          /\ store' = Append(store, [id |-> Len(store) + 1, url |-> requests[r].url])
          /\ Ends(r, "created", Len(store) + 1)
       \/ /\ Rows(requests[r].url) # {}
          /\ Ends(r, "IntegrityError", 0)
          /\ UNCHANGED store
       \/ \* analysis.get on a value that is not a dict (crud.py:39)
          /\ Ends(r, "AttributeError", 0)
          /\ UNCHANGED store

InitServe ==
    /\ store = <<>>
    /\ requests \in [Requests -> {Arrived(u) : u \in URLs}]
    /\ IdleInvoker
    /\ IdleParser
    /\ IdleQuiz

NextServe ==
    \/ \E r \in Requests : S_Cache(r)
    \/ \E r \in Requests : S_Fetch(r)
    \/ \E r \in Requests : S_Generate(r)
    \/ \E r \in Requests : S_Store(r)

SpecServe == InitServe /\ [][NextServe /\ UNCHANGED <<ivars, pvars, qvars>>]_vars

\* C30: however concurrent requests interleave, the table never holds more
\* than one row per URL, and a request that found a row for its URL returns
\* that row without having called the fetcher or the model.
C30_OneRecordPerUrl ==
    /\ \A u \in URLs : Cardinality(Rows(u)) <= 1
    /\ \A r \in DOMAIN requests :
          requests[r].result.kind = "cached" =>
              /\ requests[r].fetched = 0
              /\ requests[r].generated = 0
              /\ \E i \in Rows(requests[r].url) : store[i].id = requests[r].result.id

\* two requests for one URL both missed the cache; one stored its row, the
\* commit of the other was refused, and a third request got the stored row
C30_Witness ==
    \E a, b, c \in DOMAIN requests :
        /\ requests[a].url = requests[b].url
        /\ requests[c].url = requests[a].url
        /\ requests[a].result.kind = "created"
        /\ requests[b].result.kind = "IntegrityError"
        /\ requests[c].result.kind = "cached"
        /\ requests[c].result.id = requests[a].result.id

=============================================================================
